---- MODULE Spec2Model ----
(***************************************************************************)
(* The preempt action of the scheduler (pkg/scheduler/actions/preempt):    *)
(* one scheduling cycle of preemptAction.Execute over a session snapshot   *)
(* of queues, jobs, tasks and nodes, with the Statement, the node          *)
(* future-idle projection, the priority queues and the session policy      *)
(* callbacks it drives.                                                    *)
(***************************************************************************)
EXTENDS Integers, Sequences, FiniteSets, TLC

\* ------------------------------------------------------------------ bounds
MaxReq == 2
MaxSlack == 1
MaxMinAvailable == 2
MaxPods == 2
MaxRetry == 1

\* ------------------------------------------------------- session snapshot
Dims == {"cpu", "mem"}
Nodes == {"n1", "n2"}
Queues == {"q1", "q2"}
Jobs == {"j1", "j2", "j3", "j4"}
Tasks == {"p1", "p2", "v1", "v2", "w1"}

\* the job of a task in the usual snapshot (j4 has no task there)
SnapshotJob(t) ==
    CASE t \in {"p1", "p2"} -> "j1"
      [] t \in {"v1", "v2"} -> "j2"
      [] OTHER -> "j3"

JobQueue(j) == IF j \in {"j3", "j4"} THEN "q2" ELSE "q1"

JobPriority(j) == IF j = "j1" THEN 2 ELSE 1

TaskPriority(t) == IF t \in {"p1"} THEN 2 ELSE 1

\* the node a task of the snapshot runs on when its status is Running
HomeNode(t) == IF t = "v2" THEN "n2" ELSE "n1"

\* memory request of a task (the cpu request is drawn in Init)
MemReq(t) == IF t \in {"p2", "v2"} THEN 0 ELSE 1

VARIABLES
    taskJob,         \* task -> the job it belongs to
    resreq,          \* task -> requested resource vector (Resreq / InitResreq)
    minAvailable,    \* job -> MinAvailable
    allocatable,     \* node -> allocatable resource vector
    pendingGroups,   \* jobs whose PodGroup is in phase Pending
    jobValid,        \* job -> what ssn.JobValid returns: "nil" | "pass" | "fail"
    sessionQueues,   \* the queues in ssn.Queues
    initial,         \* the node and task state of the snapshot at the entry of Execute
    firstRun,        \* what an earlier run of Execute on the same snapshot committed
    job,             \* the job of the job controller: phase, RetryCount, MinAvailable, pod counts
    lastAction,      \* history: the last action the job controller executed on the job
    status,          \* task -> Pending | Running | Releasing | Pipelined
    nodeOf,          \* task -> node whose Tasks holds it, or "none"
    futureIdle,      \* node -> future-idle projection
    stmt,            \* the Statement: [open, ops]
    committed,       \* operations made durable by Commit, in order
    preemptorsMap,   \* queue -> priority queue of preemptor jobs
    preemptorTasks,  \* job -> priority queue of pending tasks
    poppedIn,        \* history: task -> the phase in which it was popped as preemptor
    underRequest,    \* sequence of preemptor jobs
    queues,          \* queues still to be ranged over
    pc,              \* position in Execute / preempt
    queue,           \* queue of the current iteration
    preemptorJob,    \* job popped in the cross-job loop
    assigned,        \* Execute's assigned
    preemptor,       \* task popped as preemptor
    mode,            \* "cross" | "intra": which loop called preempt
    jobIdx,          \* index into underRequest of the intra-job loop
    selectedNodes,   \* nodes of preempt's range still to visit
    victimsQueue,    \* victims queue of the current node attempt
    pAssigned,       \* preempt's local assigned
    atOpen,          \* history: status, nodeOf, futureIdle when the Statement was opened
    resolved,        \* history: jobs whose cross-job Statement was committed or discarded
    discarded,       \* history: the operations of the discarded Statements
    dropped,         \* history: the jobs whose cross-job Statement was discarded
    intraFailed,     \* history: <<job, queue>>, a task of the job was not assigned in
                     \* the intra-job loop of the iteration of the queue
    rankedNodes,     \* history: selectedNodes as preempt computed it
    callLog,         \* history: what this preempt call did, in order
    lastCall,        \* history: the last call of preempt, and the node state it started from
    ev               \* history: the last step taken

\* what no step of Execute changes
ctlVars == <<job, lastAction>>
cfgVars == <<taskJob, resreq, minAvailable, allocatable, pendingGroups, jobValid,
             sessionQueues, initial, firstRun, ctlVars>>
nodeVars == <<status, nodeOf, futureIdle>>
stmtVars == <<stmt, committed, atOpen, resolved, discarded, dropped, intraFailed>>
collectVars == <<preemptorsMap, preemptorTasks, poppedIn, underRequest, queues>>
loopVars == <<queue, preemptorJob, assigned, preemptor, mode, jobIdx>>
callVars == <<selectedNodes, victimsQueue, pAssigned, rankedNodes, callLog, lastCall>>
vars == <<cfgVars, nodeVars, stmtVars, collectVars, loopVars, callVars, pc, ev>>

TaskJob(t) == IF t \in Tasks THEN taskJob[t] ELSE "none"

\* ------------------------------------------------------- Resource Vector
Zero == [d \in Dims |-> 0]

LessEqual(l, r) == \A d \in Dims : l[d] <= r[d]

Add(l, r) == [d \in Dims |-> l[d] + r[d]]

Sub(l, r) == [d \in Dims |-> IF l[d] >= r[d] THEN l[d] - r[d] ELSE 0]

Resreq(t) == resreq[t]

InitResreq(t) == resreq[t]

RECURSIVE SumResreq(_)
SumResreq(S) ==
    IF S = {} THEN Zero
    ELSE LET t == CHOOSE x \in S : TRUE
         IN Add(Resreq(t), SumResreq(S \ {t}))

FutureIdle(n) == futureIdle[n]

NodeTasks(n) == {t \in Tasks : nodeOf[t] = n}

\* ------------------------------------------------------ session callbacks
JobOrderFn(l, r) == JobPriority(l) > JobPriority(r)

TaskOrderFn(l, r) == TaskPriority(l) > TaskPriority(r)

ReadyTaskNum(j) ==
    Cardinality({t \in Tasks : TaskJob(t) = j /\ status[t] \in {"Running", "Pipelined"}})

JobPipelined(j) == ReadyTaskNum(j) >= minAvailable[j]

PendingTasks(j) == {t \in Tasks : TaskJob(t) = j /\ status[t] = "Pending"}

\* ------------------------------------------------ Ordered Candidate Queue
\* the elements Pop may return under the comparator lessFn, given as the set of
\* the pairs it holds of: those no other element is strictly before
Front(q, lessFn) ==
    {x \in q : \A y \in q \ {x} : ~(<<y, x>> \in lessFn /\ <<x, y>> \notin lessFn)}

\* ------------------------------------------------------------- Statement
EvictOp(t) == [name |-> "evict", task |-> t, node |-> nodeOf[t]]

PipelineOp(t, n) == [name |-> "pipeline", task |-> t, node |-> n]

UndoOp(o, s) ==
    IF o.name = "evict"
    THEN [status |-> [s.status EXCEPT ![o.task] = "Running"],
          nodeOf |-> s.nodeOf,
          futureIdle |-> [s.futureIdle EXCEPT ![o.node] = Sub(@, Resreq(o.task))]]
    ELSE [status |-> [s.status EXCEPT ![o.task] = "Pending"],
          nodeOf |-> [s.nodeOf EXCEPT ![o.task] = "none"],
          futureIdle |-> [s.futureIdle EXCEPT ![o.node] = Add(@, Resreq(o.task))]]

RECURSIVE Revert(_, _)
Revert(ops, s) ==
    IF ops = <<>> THEN s
    ELSE Revert(SubSeq(ops, 1, Len(ops) - 1), UndoOp(ops[Len(ops)], s))

\* fault: the environment makes the call fail (a transient state change)
EvictFails(t, fault) == fault \/ nodeOf[t] = "none"

PipelineFails(t, n, fault) == fault \/ ~LessEqual(Resreq(t), FutureIdle(n))

\* --------------------------------------------------------- preempt.go
\* Execute, lines 55-72: the jobs Phase 0 does not skip
PodGroupPending(j) == j \in pendingGroups

\* Execute, line 59: vr != nil && !vr.Pass skips the job
JobValidPass(j) == ~(jobValid[j] # "nil" /\ jobValid[j] # "pass")

\* Execute, line 64
SsnQueues == sessionQueues

\* faulty variant: the result of ssn.JobValid is not looked at
EligibleWithoutJobValid(j) == ~PodGroupPending(j) /\ JobQueue(j) \in SsnQueues

Eligible(j) == ~PodGroupPending(j) /\ JobValidPass(j) /\ JobQueue(j) \in SsnQueues

IsPreemptorJob(j) == Eligible(j) /\ PendingTasks(j) # {} /\ ~JobPipelined(j)

\* the orders in which a range over a Go map may visit the elements of S
Orders(S) ==
    {s \in [1..Cardinality(S) -> S] : \A i, k \in 1..Cardinality(S) : i # k => s[i] # s[k]}

\* faulty variant: the filter does not look at the task's status
CrossJobFilterAnyStatus(pj, p, t) ==
    /\ TaskJob(t) \in Jobs
    /\ JobQueue(TaskJob(t)) = JobQueue(pj)
    /\ TaskJob(p) # TaskJob(t)

\* faulty variant: the filter does not compare the queues
CrossJobFilterAnyQueue(pj, p, t) ==
    /\ status[t] = "Running"
    /\ TaskJob(t) \in Jobs
    /\ TaskJob(p) # TaskJob(t)

\* faulty variant: the comparator is given its arguments in the other order
JobLessFnSwapped == {c \in Jobs \X Jobs : JobOrderFn(c[2], c[1])}

\* Execute, line 74: the preemptor jobs of a queue are ordered by JobOrderFn
JobLessFn == {c \in Jobs \X Jobs : JobOrderFn(c[1], c[2])}

\* faulty variant: the comparator is given its arguments in the other order
TaskLessFnSwapped == {c \in Tasks \X Tasks : TaskOrderFn(c[2], c[1])}

\* Execute, line 78: the pending tasks of a job are ordered by TaskOrderFn
TaskLessFn == {c \in Tasks \X Tasks : TaskOrderFn(c[1], c[2])}

\* Execute, lines 115-127: the victim filter of the cross-job loop
CrossJobFilter(pj, p, t) ==
    /\ status[t] = "Running"
    /\ TaskJob(t) \in Jobs
    /\ JobQueue(TaskJob(t)) = JobQueue(pj)
    /\ TaskJob(p) # TaskJob(t)

\* faulty variant: the filter does not compare the jobs
IntraJobFilterAnyJob(p, t) == status[t] = "Running"

\* Execute, lines 159-167: the victim filter of the intra-job loop
IntraJobFilter(p, t) ==
    /\ status[t] = "Running"
    /\ TaskJob(p) = TaskJob(t)

Filter(t) ==
    IF mode = "cross" THEN CrossJobFilter(preemptorJob, preemptor, t)
    ELSE IntraJobFilter(preemptor, t)

\* preempt, lines 200-207
Preemptees(n) == {t \in NodeTasks(n) : Filter(t)}

\* preempt, line 208: the victim-selection policy answers with some of the candidates
Preemptable(preemptees) == SUBSET preemptees

\* faulty variant: only the emptiness of the victim set is checked
validateVictimsNoSum(p, n, victims) == victims # {}

\* faulty variant: an empty victim set is not rejected
validateVictimsNoEmptyCheck(p, n, victims) ==
    LessEqual(InitResreq(p), Add(FutureIdle(n), SumResreq(victims)))

\* validateVictims, lines 263-278 (TRUE: no error)
validateVictims(p, n, victims) ==
    /\ victims # {}
    /\ LessEqual(InitResreq(p), Add(FutureIdle(n), SumResreq(victims)))

\* faulty variant: the comparator is not inverted
VictimOrderNotInverted(l, r) == TaskOrderFn(l, r)

\* preempt, lines 216-218: the comparator of the victims queue
VictimOrderFn(l, r) == ~TaskOrderFn(l, r)

\* faulty variant: the loop does not stop when the request fits
EvictAllVictims(p, n, vq) == vq # {}

\* preempt, line 216: the victims queue is made with that comparator
VictimLessFn == {c \in Tasks \X Tasks : VictimOrderFn(c[1], c[2])}

\* preempt, lines 226-231: the eviction loop goes on
EvictLoopContinues(p, n, vq) == vq # {} /\ ~LessEqual(InitResreq(p), FutureIdle(n))

\* faulty variant: the eviction is made on the session directly and is not logged
EvictThroughSession == FALSE

\* preempt, line 235: the eviction is made through the Statement, which logs it
EvictThroughStatement == TRUE

\* faulty variant: the preemptor is pipelined whether or not its request fits
PipelineWithoutGuard(p, n) == TRUE

\* preempt, line 247
PipelineGuard(p, n) == LessEqual(InitResreq(p), FutureIdle(n))

\* faulty variant: assigned starts true
PreemptInitAssignedTrue == TRUE

\* preempt, line 187
PreemptInitAssigned == FALSE

\* faulty variant: no break, the range goes on with the next node
NodesAfterAssignNoBreak(nodes) == Tail(nodes)

\* preempt, line 256: break, no node is left to visit
NodesAfterAssign(nodes) == <<>>

\* preempt, lines 189-195: the predicate drops nodes, the scores rank the rest
SelectedNodeLists ==
    UNION {Orders(S) : S \in SUBSET Nodes}

\* faulty variant: the nodes the predicate rejects are kept
PredicateNodesKeepsAll(nodes, accepted) == nodes

\* preempt, lines 189-191: the nodes of the session that ssn.PredicateFn accepts
\* for the preemptor; the error it returns for the others is dropped
PredicateNodes(nodes, accepted) == nodes \cap accepted

\* faulty variant: the Statement is committed when a task was assigned
CommitsWhenAssigned(pj) == assigned

\* Execute, lines 133-138
CommitsStatement(pj) == JobPipelined(pj)

\* faulty variant: the loop goes on with the next job without a terminal call
ContinuesWithoutDiscard == FALSE

\* Execute, lines 135-137: the Statement is discarded before the continue
DiscardsStatement == TRUE

\* faulty variant: the job is pushed back after every commit
PushesBackAlways(a) == TRUE

\* Execute, lines 140-142
PushesBack(a) == a

\* faulty variant: the cross-job loop may break while preemptor jobs are left
CrossLoopBreaksAnyTime(q) == TRUE

\* Execute, lines 88-94: the cross-job loop breaks when the queue has no
\* preemptor job left
CrossLoopBreaks(q) == preemptorsMap[q] = {}

\* faulty variant: the intra-job Statement is committed only when the task was assigned
IntraCommitsWhenAssigned(a) == a

\* Execute, line 168: the intra-job Statement is committed unconditionally
IntraCommits(a) == TRUE

\* faulty variant: the intra-job loop has a task queue of its own, holding the
\* tasks of the job that are Pending
IntraTaskQueueOfItsOwn(j) == PendingTasks(j)

\* Execute, lines 148-156: the intra-job loop pops from the task queue that
\* Phase 0 made for the job, the one the cross-job loop pops from
IntraTaskQueue(j) == preemptorTasks[j]

\* faulty variant: the loop over the tasks of the job goes on after a failure
IntraLoopNeverBreaks(a) == FALSE

\* Execute, lines 170-173: if no preemption, next job
IntraLoopBreaks(a) == ~a

\* ev observes the last step: its kind, the task and node it is about, whether it
\* succeeded, the victims selected, the operations a Commit or Discard found in
\* the log (the ranked nodes, for the return of preempt)
NoEv ==
    [kind |-> "none", task |-> "none", node |-> "none", ok |-> TRUE, victims |-> {},
     ops |-> <<>>]

Ev(k, t, n, ok, vs) ==
    [kind |-> k, task |-> t, node |-> n, ok |-> ok, victims |-> vs, ops |-> <<>>]

EvOps(k, ops) ==
    [kind |-> k, task |-> "none", node |-> "none", ok |-> TRUE, victims |-> {}, ops |-> ops]

\* lastCall observes a call of preempt: the preemptor, the ranked nodes, what the
\* call did, its result, and the node state it started from; it is kept until
\* the Statement of the call is committed or discarded
NoCall ==
    [task |-> "none", nodes |-> <<>>, log |-> <<>>, returned |-> FALSE, ok |-> FALSE,
     accepted |-> {},
     before |-> [status |-> [t \in Tasks |-> "none"], nodeOf |-> [t \in Tasks |-> "none"],
                 futureIdle |-> [n \in Nodes |-> Zero]]]

\* ------------------------------------------------------------------ Init
Used(st, rq, home, n) ==
    LET ts == {t \in Tasks : st[t] = "Running" /\ home[t] = n}
        F[S \in SUBSET Tasks] ==
            IF S = {} THEN Zero
            ELSE LET t == CHOOSE x \in S : TRUE IN Add(rq[t], F[S \ {t}])
    IN F[ts]

\* the snapshot at the entry of Execute, with the Running tasks on the nodes home
\* and the PodGroups of the jobs pend, whose tasks are all Pending, in phase Pending
InitWith(jobOf, home, pend, valid, ssnQueues) ==
    /\ taskJob = jobOf
    /\ pendingGroups = pend
    /\ jobValid = valid
    /\ sessionQueues = ssnQueues
    /\ \E cpu \in [{"j1", "j2"} -> 1..MaxReq] :
          resreq = [t \in Tasks |->
              [cpu |-> IF SnapshotJob(t) = "j3" THEN 1 ELSE cpu[SnapshotJob(t)],
               mem |-> MemReq(t)]]
    /\ \E m \in 1..MaxMinAvailable : minAvailable = [j \in Jobs |-> m]
    /\ status \in [Tasks -> {"Pending", "Running"}]
    /\ \A t \in Tasks : jobOf[t] \in pend => status[t] = "Pending"
    /\ nodeOf = [t \in Tasks |-> IF status[t] = "Running" THEN home[t] ELSE "none"]
    /\ \E slack \in 0..MaxSlack :
          allocatable = [n \in Nodes |->
              Add(Used(status, resreq, home, n),
                  IF n = "n1" THEN [cpu |-> slack, mem |-> 0] ELSE [cpu |-> 0, mem |-> 1])]
    /\ futureIdle = [n \in Nodes |-> Sub(allocatable[n], Used(status, resreq, home, n))]
    /\ stmt = [open |-> FALSE, ops |-> <<>>]
    /\ committed = <<>>
    /\ atOpen = [status |-> status, nodeOf |-> nodeOf, futureIdle |-> futureIdle]
    /\ resolved = {}
    /\ discarded = <<>>
    /\ dropped = {}
    /\ intraFailed = {}
    /\ preemptorsMap = [q \in Queues |-> {}]
    /\ preemptorTasks = [j \in Jobs |-> {}]
    /\ poppedIn = [t \in Tasks |-> "none"]
    /\ underRequest = <<>>
    /\ queues = {}
    /\ pc = "collect"
    /\ queue = "none"
    /\ preemptorJob = "none"
    /\ assigned = FALSE
    /\ preemptor = "none"
    /\ mode = "none"
    /\ jobIdx = 1
    /\ selectedNodes = <<>>
    /\ victimsQueue = {}
    /\ pAssigned = FALSE
    /\ rankedNodes = <<>>
    /\ callLog = <<>>
    /\ lastCall = NoCall
    /\ ev = NoEv
    /\ initial = [status |-> status, nodeOf |-> nodeOf, futureIdle |-> futureIdle]
    /\ firstRun = [done |-> FALSE, ops |-> {}]

\* the same with every job valid and every queue in the session
InitOn(jobOf, home, pend) ==
    InitWith(jobOf, home, pend, [j \in Jobs |-> IF j = "j1" THEN "nil" ELSE "pass"], Queues)

\* the job controller is not part of a scheduling cycle: its job is left alone
NoJob ==
    [phase |-> "Pending", retryCount |-> 0, minAvailable |-> 0, pending |-> 0,
     running |-> 0, succeeded |-> 0, failed |-> 0, terminating |-> 0]

NoAction == [action |-> "none", state |-> "none", applied |-> FALSE]

ControllerIdle == job = NoJob /\ lastAction = NoAction

Init ==
    /\ InitOn([t \in Tasks |-> SnapshotJob(t)], [t \in Tasks |-> HomeNode(t)], {})
    /\ ControllerIdle

\* the same snapshot with every Running task on n1
InitColocated ==
    /\ InitOn([t \in Tasks |-> SnapshotJob(t)], [t \in Tasks |-> "n1"], {})
    /\ ControllerIdle

\* a snapshot with a job of one pending or running task and another job in each
\* queue, every Running task on n1
TwoQueuesJob(t) ==
    CASE t = "p2" -> "j1"
      [] t \in {"v2", "w1"} -> "j2"
      [] t = "p1" -> "j3"
      [] OTHER -> "j4"

InitTwoRuns ==
    /\ InitOn([t \in Tasks |-> TwoQueuesJob(t)], [t \in Tasks |-> "n1"], {})
    /\ ControllerIdle

\* snapshots with every Running task on n2 and, beside the PodGroup of j4, the
\* PodGroup of j2, of j3 or of both still Pending
InitGated ==
    /\ \E pend \in (SUBSET {"j2", "j3"}) \ {{}} :
          InitOn([t \in Tasks |-> SnapshotJob(t)], [t \in Tasks |-> "n2"], pend \cup {"j4"})
    /\ ControllerIdle

\* snapshots with every Running task on n2 in which Phase 0 has to turn a job
\* away: the PodGroup of j2 or of j3 is still Pending, or ssn.JobValid fails j2,
\* or the queue of j2 is not in the session
InitAdmission ==
    /\ \E x \in {"j2", "j3"}, why \in {"phase", "valid", "queue"} :
          /\ x = "j3" => why = "phase"
          /\ InitWith([t \in Tasks |-> SnapshotJob(t)], [t \in Tasks |-> "n2"],
                      IF why = "phase" THEN {x, "j4"} ELSE {"j4"},
                      [j \in Jobs |-> IF j = x /\ why = "valid" THEN "fail"
                                      ELSE IF j = "j1" THEN "nil" ELSE "pass"],
                      IF why = "queue" THEN Queues \ {JobQueue(x)} ELSE Queues)
    /\ ControllerIdle

\* --------------------------------------------------------------- Execute
\* lines 55-83: Phase 0
Collect ==
    /\ pc = "collect"
    /\ queues' = {JobQueue(j) : j \in {x \in Jobs : Eligible(x)}}
    /\ preemptorsMap' = [q \in Queues |-> {j \in Jobs : IsPreemptorJob(j) /\ JobQueue(j) = q}]
    /\ preemptorTasks' = [j \in Jobs |-> IF IsPreemptorJob(j) THEN PendingTasks(j) ELSE {}]
    /\ poppedIn' = poppedIn
    /\ underRequest' \in Orders({j \in Jobs : IsPreemptorJob(j)})
    /\ pc' = "queues"
    /\ ev' = Ev("Collect", "none", "none", TRUE, {})
    /\ UNCHANGED <<cfgVars, nodeVars, stmtVars, loopVars, callVars>>

\* line 86: the next queue of the range over the map
RangeQueue ==
    /\ pc = "queues"
    /\ \E q \in queues :
          /\ queue' = q
          /\ queues' = queues \ {q}
    /\ pc' = "cross"
    /\ ev' = Ev("RangeQueue", "none", "none", TRUE, {})
    /\ UNCHANGED <<cfgVars, nodeVars, stmtVars, preemptorsMap, preemptorTasks, poppedIn,
                   underRequest, preemptorJob, assigned, preemptor, mode, jobIdx, callVars>>

\* line 176: the range is over, Execute returns
ExecuteReturn ==
    /\ pc = "queues"
    /\ queues = {}
    /\ pc' = "done"
    /\ ev' = Ev("Return", "none", "none", TRUE, {})
    /\ UNCHANGED <<cfgVars, nodeVars, stmtVars, collectVars, loopVars, callVars>>

\* lines 88-94: no preemptor job is left in the queue
NoPreemptors ==
    /\ pc = "cross"
    /\ CrossLoopBreaks(queue)
    /\ jobIdx' = 1
    /\ pc' = "intra"
    /\ ev' = Ev("NoPreemptors", "none", "none", TRUE, {})
    /\ UNCHANGED <<cfgVars, nodeVars, stmtVars, collectVars, queue, preemptorJob, assigned,
                   preemptor, mode, callVars>>

\* lines 96-99: pop the preemptor job and open its Statement
PopPreemptorJob ==
    /\ pc = "cross"
    /\ preemptorsMap[queue] # {}
    /\ \E j \in Front(preemptorsMap[queue], JobLessFn) :
          /\ preemptorJob' = j
          /\ preemptorsMap' = [preemptorsMap EXCEPT ![queue] = @ \ {j}]
    /\ stmt' = [open |-> TRUE, ops |-> <<>>]
    /\ atOpen' = [status |-> status, nodeOf |-> nodeOf, futureIdle |-> futureIdle]
    /\ assigned' = FALSE
    /\ pc' = "tasks"
    /\ ev' = Ev("Open", "none", "none", TRUE, {})
    /\ UNCHANGED <<cfgVars, nodeVars, committed, resolved, discarded, dropped, intraFailed,
                   preemptorTasks, poppedIn, underRequest,
                   queues, queue, preemptor, mode, jobIdx, callVars>>

\* lines 101-111: the inner loop of the cross-job phase ends
StopPreemptorJob ==
    /\ pc = "tasks"
    /\ JobPipelined(preemptorJob) \/ preemptorTasks[preemptorJob] = {}
    /\ pc' = "resolve"
    /\ ev' = Ev("StopJob", "none", "none", TRUE, {})
    /\ UNCHANGED <<cfgVars, nodeVars, stmtVars, collectVars, loopVars, callVars>>

\* line 113: pop the next pending task of the preemptor job
PopPreemptor ==
    /\ pc = "tasks"
    /\ ~JobPipelined(preemptorJob)
    /\ preemptorTasks[preemptorJob] # {}
    /\ \E t \in Front(preemptorTasks[preemptorJob], TaskLessFn) :
          /\ preemptor' = t
          /\ preemptorTasks' = [preemptorTasks EXCEPT ![preemptorJob] = @ \ {t}]
          /\ poppedIn' = [poppedIn EXCEPT ![t] = "cross"]
    /\ mode' = "cross"
    /\ pc' = "preempt"
    /\ ev' = Ev("PopPreemptor", preemptor', "none", TRUE, {})
    /\ UNCHANGED <<cfgVars, nodeVars, stmtVars, preemptorsMap, underRequest, queues,
                   queue, preemptorJob, assigned, jobIdx, callVars>>

\* lines 133-134 and 140-142: the job is pipelined, commit, push back if assigned
CommitJob ==
    /\ pc = "resolve"
    /\ CommitsStatement(preemptorJob)
    /\ committed' = committed \o stmt.ops
    /\ stmt' = [open |-> FALSE, ops |-> <<>>]
    /\ preemptorsMap' =
          IF PushesBack(assigned)
          THEN [preemptorsMap EXCEPT ![queue] = @ \cup {preemptorJob}]
          ELSE preemptorsMap
    /\ pc' = "cross"
    /\ resolved' = resolved \cup {preemptorJob}
    /\ ev' = EvOps("Commit", stmt.ops)
    /\ lastCall' = NoCall
    /\ UNCHANGED <<cfgVars, nodeVars, atOpen, discarded, dropped, intraFailed, preemptorTasks,
                   poppedIn, underRequest, queues,
                   loopVars, selectedNodes, victimsQueue, pAssigned, rankedNodes, callLog>>

\* lines 135-138: the job is not pipelined, discard and go on with the next job
DiscardJob ==
    /\ pc = "resolve"
    /\ ~CommitsStatement(preemptorJob)
    /\ IF DiscardsStatement
       THEN /\ LET s == Revert(stmt.ops, [status |-> status, nodeOf |-> nodeOf,
                                          futureIdle |-> futureIdle])
               IN /\ status' = s.status
                  /\ nodeOf' = s.nodeOf
                  /\ futureIdle' = s.futureIdle
            /\ stmt' = [open |-> FALSE, ops |-> <<>>]
            /\ discarded' = discarded \o stmt.ops
            /\ dropped' = dropped \cup {preemptorJob}
            /\ ev' = EvOps("Discard", stmt.ops)
       ELSE /\ UNCHANGED <<nodeVars, stmt, discarded, dropped>>
            /\ ev' = Ev("Continue", "none", "none", TRUE, {})
    /\ pc' = "cross"
    /\ resolved' = resolved \cup {preemptorJob}
    /\ lastCall' = NoCall
    /\ UNCHANGED <<cfgVars, committed, atOpen, intraFailed, collectVars, loopVars,
                   selectedNodes, victimsQueue, pAssigned, rankedNodes, callLog>>

\* line 146: the range over underRequest is over
IntraDone ==
    /\ pc = "intra"
    /\ jobIdx > Len(underRequest)
    /\ pc' = "queues"
    /\ ev' = Ev("IntraDone", "none", "none", TRUE, {})
    /\ UNCHANGED <<cfgVars, nodeVars, stmtVars, collectVars, loopVars, callVars>>

\* lines 148-154: the job has no pending task left, next job
IntraNextJob ==
    /\ pc = "intra"
    /\ jobIdx <= Len(underRequest)
    /\ IntraTaskQueue(underRequest[jobIdx]) = {}
    /\ jobIdx' = jobIdx + 1
    /\ ev' = Ev("IntraNextJob", "none", "none", TRUE, {})
    /\ UNCHANGED <<cfgVars, nodeVars, stmtVars, collectVars, queue, preemptorJob, assigned,
                   preemptor, mode, callVars, pc>>

\* lines 156-158: pop a pending task of the job and open its Statement
IntraPopPreemptor ==
    /\ pc = "intra"
    /\ jobIdx <= Len(underRequest)
    /\ IntraTaskQueue(underRequest[jobIdx]) # {}
    /\ \E t \in Front(IntraTaskQueue(underRequest[jobIdx]), TaskLessFn) :
          /\ preemptor' = t
          /\ preemptorTasks' = [preemptorTasks EXCEPT ![underRequest[jobIdx]] = @ \ {t}]
          /\ poppedIn' = [poppedIn EXCEPT ![t] = "intra"]
    /\ stmt' = [open |-> TRUE, ops |-> <<>>]
    /\ atOpen' = [status |-> status, nodeOf |-> nodeOf, futureIdle |-> futureIdle]
    /\ mode' = "intra"
    /\ pc' = "preempt"
    /\ ev' = Ev("IntraPop", preemptor', "none", TRUE, {})
    /\ UNCHANGED <<cfgVars, nodeVars, committed, resolved, discarded, dropped, intraFailed,
                   preemptorsMap,
                   underRequest,
                   queues, queue, preemptorJob, assigned, jobIdx, callVars>>

\* lines 168-173: commit, and leave the job when the task was not assigned
IntraCommit ==
    /\ pc = "intraCommit"
    /\ IF IntraCommits(assigned)
       THEN /\ committed' = committed \o stmt.ops
            /\ ev' = EvOps("Commit", stmt.ops)
            /\ UNCHANGED <<nodeVars, discarded>>
       ELSE /\ LET s == Revert(stmt.ops, [status |-> status, nodeOf |-> nodeOf,
                                          futureIdle |-> futureIdle])
               IN /\ status' = s.status
                  /\ nodeOf' = s.nodeOf
                  /\ futureIdle' = s.futureIdle
            /\ ev' = EvOps("Discard", stmt.ops)
            /\ discarded' = discarded \o stmt.ops
            /\ UNCHANGED committed
    /\ stmt' = [open |-> FALSE, ops |-> <<>>]
    /\ jobIdx' = IF IntraLoopBreaks(assigned) THEN jobIdx + 1 ELSE jobIdx
    /\ intraFailed' = IF assigned THEN intraFailed
                      ELSE intraFailed \cup {<<underRequest[jobIdx], queue>>}
    /\ pc' = "intra"
    /\ lastCall' = NoCall
    /\ UNCHANGED <<cfgVars, atOpen, resolved, dropped, collectVars, queue, preemptorJob,
                   assigned, preemptor, mode, selectedNodes, victimsQueue, pAssigned,
                   rankedNodes, callLog>>

\* --------------------------------------------------------------- preempt
\* lines 187-195
PreemptStart ==
    /\ pc = "preempt"
    /\ \E accepted \in SUBSET Nodes :
          /\ selectedNodes' \in
                {l \in SelectedNodeLists :
                    {l[i] : i \in 1..Len(l)} = PredicateNodes(Nodes, accepted)}
          /\ lastCall' = [task |-> preemptor, nodes |-> selectedNodes', log |-> <<>>,
                          returned |-> FALSE, ok |-> FALSE, accepted |-> accepted,
                          before |-> [status |-> status, nodeOf |-> nodeOf,
                                      futureIdle |-> futureIdle]]
    /\ rankedNodes' = selectedNodes'
    /\ pAssigned' = PreemptInitAssigned
    /\ victimsQueue' = {}
    /\ callLog' = <<>>
    /\ pc' = "node"
    /\ ev' = Ev("Preempt", preemptor, "none", TRUE, {})
    /\ UNCHANGED <<cfgVars, nodeVars, stmtVars, collectVars, loopVars>>

\* lines 196-214: the victims of the node do not validate, next node
SkipNode ==
    /\ pc = "node"
    /\ selectedNodes # <<>>
    /\ LET node == Head(selectedNodes)
       IN \E victims \in Preemptable(Preemptees(node)) :
             /\ ~validateVictims(preemptor, node, victims)
             /\ ev' = Ev("Skip", preemptor, node, TRUE, victims)
    /\ selectedNodes' = Tail(selectedNodes)
    /\ callLog' = Append(callLog, ev')
    /\ UNCHANGED <<cfgVars, nodeVars, stmtVars, collectVars, loopVars, victimsQueue,
                   pAssigned, rankedNodes, lastCall, pc>>

\* lines 196-222: the victims validate and are pushed on the victims queue
ValidateNode ==
    /\ pc = "node"
    /\ selectedNodes # <<>>
    /\ LET node == Head(selectedNodes)
       IN \E victims \in Preemptable(Preemptees(node)) :
             /\ validateVictims(preemptor, node, victims)
             /\ victimsQueue' = victims
             /\ ev' = Ev("Validate", preemptor, node, TRUE, victims)
    /\ callLog' = Append(callLog, ev')
    /\ pc' = "evict"
    /\ UNCHANGED <<cfgVars, nodeVars, stmtVars, collectVars, loopVars, selectedNodes,
                   pAssigned, rankedNodes, lastCall>>

\* lines 226-240: pop a victim and evict it through the Statement
EvictVictim ==
    /\ pc = "evict"
    /\ EvictLoopContinues(preemptor, Head(selectedNodes), victimsQueue)
    /\ \E preemptee \in Front(victimsQueue, VictimLessFn), fault \in BOOLEAN :
          /\ victimsQueue' = victimsQueue \ {preemptee}
          /\ IF EvictFails(preemptee, fault)
             THEN /\ UNCHANGED <<nodeVars, stmt>>
                  /\ ev' = Ev("Evict", preemptee, Head(selectedNodes), FALSE, {})
             ELSE /\ status' = [status EXCEPT ![preemptee] = "Releasing"]
                  /\ futureIdle' = [futureIdle EXCEPT ![nodeOf[preemptee]] =
                                       Add(@, Resreq(preemptee))]
                  /\ nodeOf' = nodeOf
                  /\ stmt' = IF EvictThroughStatement
                              THEN [stmt EXCEPT !.ops = Append(@, EvictOp(preemptee))]
                              ELSE stmt
                  /\ ev' = Ev("Evict", preemptee, Head(selectedNodes), TRUE, {})
    /\ callLog' = Append(callLog, ev')
    /\ UNCHANGED <<cfgVars, committed, atOpen, resolved, discarded, dropped, intraFailed,
                   collectVars, loopVars,
                   selectedNodes, pAssigned, rankedNodes, lastCall, pc>>

\* lines 226-231: the eviction loop ends
EvictDone ==
    /\ pc = "evict"
    /\ ~EvictLoopContinues(preemptor, Head(selectedNodes), victimsQueue)
    /\ pc' = "pipeline"
    /\ ev' = Ev("EvictDone", preemptor, Head(selectedNodes), TRUE, {})
    /\ UNCHANGED <<cfgVars, nodeVars, stmtVars, collectVars, loopVars, callVars>>

\* lines 247-257: the request fits, pipeline the preemptor and stop
PipelinePreemptor ==
    /\ pc = "pipeline"
    /\ PipelineGuard(preemptor, Head(selectedNodes))
    /\ LET node == Head(selectedNodes)
       IN \E fault \in BOOLEAN :
             IF PipelineFails(preemptor, node, fault)
             THEN /\ UNCHANGED <<nodeVars, stmt>>
                  /\ ev' = Ev("Pipeline", preemptor, node, FALSE, {})
             ELSE /\ status' = [status EXCEPT ![preemptor] = "Pipelined"]
                  /\ nodeOf' = [nodeOf EXCEPT ![preemptor] = node]
                  /\ futureIdle' = [futureIdle EXCEPT ![node] = Sub(@, Resreq(preemptor))]
                  /\ stmt' = [stmt EXCEPT !.ops = Append(@, PipelineOp(preemptor, node))]
                  /\ ev' = Ev("Pipeline", preemptor, node, TRUE, {})
    /\ pAssigned' = TRUE
    /\ selectedNodes' = NodesAfterAssign(selectedNodes)
    /\ callLog' = Append(callLog, ev')
    /\ pc' = "node"
    /\ UNCHANGED <<cfgVars, committed, atOpen, resolved, discarded, dropped, intraFailed,
                   collectVars, loopVars,
                   victimsQueue, rankedNodes, lastCall>>

\* line 247: the request does not fit after the evictions, next node
NoPipeline ==
    /\ pc = "pipeline"
    /\ ~PipelineGuard(preemptor, Head(selectedNodes))
    /\ selectedNodes' = Tail(selectedNodes)
    /\ ev' = Ev("Unfit", preemptor, Head(selectedNodes), TRUE, {})
    /\ callLog' = Append(callLog, ev')
    /\ pc' = "node"
    /\ UNCHANGED <<cfgVars, nodeVars, stmtVars, collectVars, loopVars, victimsQueue,
                   pAssigned, rankedNodes, lastCall>>

\* line 260, and the caller's use of the result (lines 127-129, 159)
PreemptReturn ==
    /\ pc = "node"
    /\ selectedNodes = <<>>
    /\ assigned' = IF mode = "cross" THEN (assigned \/ pAssigned) ELSE pAssigned
    /\ pc' = IF mode = "cross" THEN "tasks" ELSE "intraCommit"
    /\ ev' = [Ev("PreemptReturn", preemptor, "none", pAssigned, {}) EXCEPT !.ops = rankedNodes]
    /\ victimsQueue' = {}
    /\ rankedNodes' = <<>>
    /\ callLog' = <<>>
    /\ lastCall' = [lastCall EXCEPT !.log = callLog, !.returned = TRUE, !.ok = pAssigned]
    /\ UNCHANGED <<cfgVars, nodeVars, stmtVars, collectVars, queue, preemptorJob,
                   preemptor, mode, jobIdx, selectedNodes, pAssigned>>

Next ==
    \/ Collect
    \/ RangeQueue
    \/ ExecuteReturn
    \/ NoPreemptors
    \/ PopPreemptorJob
    \/ StopPreemptorJob
    \/ PopPreemptor
    \/ CommitJob
    \/ DiscardJob
    \/ IntraDone
    \/ IntraNextJob
    \/ IntraPopPreemptor
    \/ IntraCommit
    \/ PreemptStart
    \/ SkipNode
    \/ ValidateNode
    \/ EvictVictim
    \/ EvictDone
    \/ PipelinePreemptor
    \/ NoPipeline
    \/ PreemptReturn

Spec == Init /\ [][Next]_vars

\* --------------------------------------------- two runs on one snapshot
\* Execute has returned; it is entered again on the snapshot of the first run
Rerun ==
    /\ pc = "done"
    /\ ~firstRun.done
    /\ firstRun' = [done |-> TRUE, ops |-> {committed[i] : i \in 1..Len(committed)}]
    /\ status' = initial.status
    /\ nodeOf' = initial.nodeOf
    /\ futureIdle' = initial.futureIdle
    /\ stmt' = [open |-> FALSE, ops |-> <<>>]
    /\ committed' = <<>>
    /\ atOpen' = initial
    /\ resolved' = {}
    /\ discarded' = <<>>
    /\ dropped' = {}
    /\ intraFailed' = {}
    /\ preemptorsMap' = [q \in Queues |-> {}]
    /\ preemptorTasks' = [j \in Jobs |-> {}]
    /\ poppedIn' = [t \in Tasks |-> "none"]
    /\ underRequest' = <<>>
    /\ queues' = {}
    /\ pc' = "collect"
    /\ queue' = "none"
    /\ preemptorJob' = "none"
    /\ assigned' = FALSE
    /\ preemptor' = "none"
    /\ mode' = "none"
    /\ jobIdx' = 1
    /\ selectedNodes' = <<>>
    /\ victimsQueue' = {}
    /\ pAssigned' = FALSE
    /\ rankedNodes' = <<>>
    /\ callLog' = <<>>
    /\ lastCall' = NoCall
    /\ ev' = Ev("Rerun", "none", "none", TRUE, {})
    /\ UNCHANGED <<taskJob, resreq, minAvailable, allocatable, pendingGroups, jobValid,
                   sessionQueues, initial, ctlVars>>

\* the first element of the sequence order that is in S
FirstOf(S, order) == order[CHOOSE i \in 1..Len(order) :
                              order[i] \in S /\ \A k \in 1..(i - 1) : order[k] \notin S]

JobsInOrder == <<"j1", "j2", "j3", "j4">>

TasksInOrder == <<"p1", "p2", "v1", "v2", "w1">>

\* the policies and the unspecified choices answer as fixed functions of the
\* state: jobs are ranged in one order, every node is feasible and ranked n1
\* before n2, victim selection accepts every candidate, Evict fails for w1 and
\* for no other task, Pipeline does not fail, and a priority queue breaks ties
\* by name; the order of the queues (line 86) is the one choice left
FixedPolicy ==
    /\ ev'.kind = "Collect" =>
          underRequest' = SelectSeq(JobsInOrder, LAMBDA j : IsPreemptorJob(j))
    /\ ev'.kind = "Open" =>
          preemptorJob' = FirstOf(Front(preemptorsMap[queue], JobLessFn), JobsInOrder)
    /\ ev'.kind = "PopPreemptor" =>
          preemptor' = FirstOf(Front(preemptorTasks[preemptorJob], TaskLessFn), TasksInOrder)
    /\ ev'.kind = "IntraPop" =>
          preemptor' = FirstOf(Front(preemptorTasks[underRequest[jobIdx]], TaskLessFn),
                               TasksInOrder)
    /\ ev'.kind = "Preempt" => rankedNodes' = <<"n1", "n2">>
    /\ ev'.kind \in {"Skip", "Validate"} => ev'.victims = Preemptees(Head(selectedNodes))
    /\ ev'.kind = "Evict" =>
          /\ ev'.ok <=> ev'.task # "w1"
          /\ ev'.task = FirstOf(Front(victimsQueue, VictimLessFn), TasksInOrder)
    /\ ev'.kind = "Pipeline" => ev'.ok

NextTwoRuns ==
    \/ Collect /\ FixedPolicy
    \/ RangeQueue /\ FixedPolicy
    \/ ExecuteReturn /\ FixedPolicy
    \/ NoPreemptors /\ FixedPolicy
    \/ PopPreemptorJob /\ FixedPolicy
    \/ StopPreemptorJob /\ FixedPolicy
    \/ PopPreemptor /\ FixedPolicy
    \/ CommitJob /\ FixedPolicy
    \/ DiscardJob /\ FixedPolicy
    \/ IntraDone /\ FixedPolicy
    \/ IntraNextJob /\ FixedPolicy
    \/ IntraPopPreemptor /\ FixedPolicy
    \/ IntraCommit /\ FixedPolicy
    \/ PreemptStart /\ FixedPolicy
    \/ SkipNode /\ FixedPolicy
    \/ ValidateNode /\ FixedPolicy
    \/ EvictVictim /\ FixedPolicy
    \/ EvictDone /\ FixedPolicy
    \/ PipelinePreemptor /\ FixedPolicy
    \/ NoPipeline /\ FixedPolicy
    \/ PreemptReturn /\ FixedPolicy
    \/ Rerun

SpecTwoRuns == InitTwoRuns /\ [][NextTwoRuns]_vars

SpecColocated == InitColocated /\ [][Next]_vars

SpecGated == InitGated /\ [][Next]_vars

SpecAdmission == InitAdmission /\ [][Next]_vars

\* ------------------------------------- job controller: the pending state
\* (pkg/controllers/job/state)
JobPhases ==
    {"Pending", "Aborting", "Aborted", "Running", "Restarting", "Completing",
     "Completed", "Terminating", "Terminated", "Failed"}

\* a phase NewState has no case for, and the empty phase of a new job
OtherPhases == {"Unknown", ""}

\* the actions pendingState.Execute has a case for, and some of the others
KillActions == {"RestartJob", "AbortJob", "CompleteJob", "TerminateJob"}
OtherActions == {"SyncJob", "ResumeJob", "EnqueueJob"}

\* faulty variant: the case of the finished phases is missing
NewStateWithoutFinished(phase) ==
    CASE phase = "Pending" -> "pendingState"
      [] phase = "Running" -> "runningState"
      [] phase = "Restarting" -> "restartingState"
      [] phase = "Terminating" -> "terminatingState"
      [] phase = "Aborting" -> "abortingState"
      [] phase = "Aborted" -> "abortedState"
      [] phase = "Completing" -> "completingState"
      [] OTHER -> "pendingState"

\* NewState, lines 60-84
NewState(phase) ==
    CASE phase = "Pending" -> "pendingState"
      [] phase = "Running" -> "runningState"
      [] phase = "Restarting" -> "restartingState"
      [] phase \in {"Terminated", "Completed", "Failed"} -> "finishedState"
      [] phase = "Terminating" -> "terminatingState"
      [] phase = "Aborting" -> "abortingState"
      [] phase = "Aborted" -> "abortedState"
      [] phase = "Completing" -> "completingState"
      [] OTHER -> "pendingState"

PodRetainPhaseNone == {}

PodRetainPhaseSoft == {"Succeeded", "Failed"}

\* the pod counts a job status may hold
PodCounts ==
    {c \in [{"pending", "running", "succeeded", "failed", "terminating"} -> 0..MaxPods] :
        c.pending + c.running + c.succeeded + c.failed + c.terminating <= MaxPods}

\* faulty variant: the Running pods are left alone
KilledButRunning(j, retain) ==
    [j EXCEPT !.pending = 0,
              !.succeeded = IF "Succeeded" \in retain THEN @ ELSE 0,
              !.failed = IF "Failed" \in retain THEN @ ELSE 0,
              !.terminating = @ + j.pending
                                + (IF "Succeeded" \in retain THEN 0 ELSE j.succeeded)
                                + (IF "Failed" \in retain THEN 0 ELSE j.failed)]

\* KillJob: the pods whose phase is not retained are killed
Killed(j, retain) ==
    [j EXCEPT !.pending = 0,
              !.running = 0,
              !.succeeded = IF "Succeeded" \in retain THEN @ ELSE 0,
              !.failed = IF "Failed" \in retain THEN @ ELSE 0,
              !.terminating = @ + j.pending + j.running
                                + (IF "Succeeded" \in retain THEN 0 ELSE j.succeeded)
                                + (IF "Failed" \in retain THEN 0 ELSE j.failed)]

\* SyncJob: pods are created or deleted, the status holds the counts found
Synced(j, c) ==
    [j EXCEPT !.pending = c.pending, !.running = c.running, !.succeeded = c.succeeded,
              !.failed = c.failed, !.terminating = c.terminating]

\* faulty variant: the comparison is strict
PendingSyncPhaseStrict(st) ==
    IF st.minAvailable < st.running + st.succeeded + st.failed THEN "Running" ELSE "Pending"

\* pendingState.Execute, lines 53-60: the status update of the default case
PendingSyncPhase(st) ==
    IF st.minAvailable <= st.running + st.succeeded + st.failed THEN "Running" ELSE "Pending"

\* the variables of the scheduling cycle, which the job controller leaves alone
schedVars ==
    <<taskJob, resreq, minAvailable, allocatable, pendingGroups, jobValid, sessionQueues,
      initial, firstRun, nodeVars, stmtVars, collectVars, loopVars, callVars, pc, ev>>

\* what Execute leaves of the job, for action a of the state that NewState
\* gives: KillJob or SyncJob computes the status st and hands it to the status
\* update, or returns an error before it does
Executed(a, st, applied) ==
    [job |-> IF applied THEN st ELSE job,
     lastAction |-> [action |-> a, state |-> NewState(job.phase), applied |-> applied]]

\* faulty variant: the restart is not counted
RestartStatusUncounted(st) == [st EXCEPT !.phase = "Restarting"]

\* lines 31-35: the status update of the Restart case
RestartStatus(st) == [st EXCEPT !.retryCount = @ + 1, !.phase = "Restarting"]

\* lines 30-35
RestartJobAction ==
    /\ NewState(job.phase) = "pendingState"
    /\ \E applied \in BOOLEAN :
          LET r == Executed("RestartJob",
                            RestartStatus(Killed(job, PodRetainPhaseNone)),
                            applied)
          IN job' = r.job /\ lastAction' = r.lastAction
    /\ UNCHANGED schedVars

\* lines 37-41
AbortJobAction ==
    /\ NewState(job.phase) = "pendingState"
    /\ \E applied \in BOOLEAN :
          LET r == Executed("AbortJob",
                            [Killed(job, PodRetainPhaseSoft) EXCEPT !.phase = "Aborting"],
                            applied)
          IN job' = r.job /\ lastAction' = r.lastAction
    /\ UNCHANGED schedVars

\* lines 42-46
CompleteJobAction ==
    /\ NewState(job.phase) = "pendingState"
    /\ \E applied \in BOOLEAN :
          LET r == Executed("CompleteJob",
                            [Killed(job, PodRetainPhaseSoft) EXCEPT !.phase = "Completing"],
                            applied)
          IN job' = r.job /\ lastAction' = r.lastAction
    /\ UNCHANGED schedVars

\* lines 47-51
TerminateJobAction ==
    /\ NewState(job.phase) = "pendingState"
    /\ \E applied \in BOOLEAN :
          LET r == Executed("TerminateJob",
                            [Killed(job, PodRetainPhaseSoft) EXCEPT !.phase = "Terminating"],
                            applied)
          IN job' = r.job /\ lastAction' = r.lastAction
    /\ UNCHANGED schedVars

\* lines 52-60
DefaultAction ==
    /\ NewState(job.phase) = "pendingState"
    /\ \E a \in OtherActions, c \in PodCounts, applied \in BOOLEAN :
          LET r == Executed(a,
                            [Synced(job, c) EXCEPT !.phase = PendingSyncPhase(Synced(job, c))],
                            applied)
          IN job' = r.job /\ lastAction' = r.lastAction
    /\ UNCHANGED schedVars

NextJob ==
    \/ RestartJobAction
    \/ AbortJobAction
    \/ CompleteJobAction
    \/ TerminateJobAction
    \/ DefaultAction

\* a job in any phase with any pod counts; no scheduling cycle is running
InitJob ==
    /\ InitOn([t \in Tasks |-> SnapshotJob(t)], [t \in Tasks |-> HomeNode(t)], {})
    /\ status = [t \in Tasks |-> "Pending"]
    /\ resreq = [t \in Tasks |-> [cpu |-> 1, mem |-> MemReq(t)]]
    /\ minAvailable = [j \in Jobs |-> 1]
    /\ allocatable["n1"].cpu = 0
    /\ \E ph \in JobPhases \cup OtherPhases, c \in PodCounts, m \in 0..MaxPods,
          r \in 0..MaxRetry :
          job = [Synced(NoJob, c) EXCEPT !.phase = ph, !.minAvailable = m, !.retryCount = r]
    /\ lastAction = NoAction

SpecJob == InitJob /\ [][NextJob]_vars

\* ---------------------------------------------------------------- claims
\* the tasks placed on node n: running there and not evicted, or pipelined there
Placed(n) == {t \in Tasks : nodeOf[t] = n /\ status[t] \in {"Running", "Pipelined"}}

InPreempt == pc \in {"node", "evict", "pipeline"}

Last(q) == q[Len(q)]

RankOf(n) == CHOOSE i \in 1..Len(rankedNodes) : rankedNodes[i] = n

\* the successful evictions of the current node attempt, in order
EvictedHere == SelectSeq(callLog, LAMBDA e : e.kind = "Evict" /\ e.ok /\ e.node = Head(selectedNodes))

\* C1: at every point of Execute, on every node the requests of the tasks placed
\* on it (Running, or Pipelined there) sum to at most the node's allocatable
\* vector in every dimension.
C1_PlacementWithinAllocatable ==
    \A n \in Nodes : LessEqual(SumResreq(Placed(n)), allocatable[n])

C1_Witness ==
    /\ ev.kind = "Commit"
    /\ \E o1, o2 \in {ev.ops[i] : i \in 1..Len(ev.ops)} :
          /\ o1.name = "evict" /\ o2.name = "pipeline" /\ o1.node = o2.node
          /\ SumResreq(Placed(o1.node))["cpu"] = allocatable[o1.node]["cpu"]

\* C2: after the Discard of a Statement every node's future-idle vector equals
\* its value when that Statement was opened, whatever was logged in between.
C2_DiscardRestoresFutureIdle ==
    ev.kind = "Discard" => futureIdle = atOpen.futureIdle

C2_Witness ==
    /\ ev.kind = "Discard"
    /\ \E i, k \in 1..Len(ev.ops) : ev.ops[i].name = "evict" /\ ev.ops[k].name = "pipeline"
    /\ futureIdle = atOpen.futureIdle

\* C3: in the cross-job phase the Statement of the popped job is committed when
\* JobPipelined(job) holds after the inner loop and discarded otherwise; a
\* Commit makes every logged operation durable and leaves the node state as it
\* is, a Discard makes none durable and restores the node state of the open.
C3_CommitIffPipelined ==
    [][pc = "resolve" =>
          IF JobPipelined(preemptorJob)
          THEN /\ ev'.kind = "Commit"
               /\ committed' = committed \o stmt.ops
               /\ UNCHANGED nodeVars
          ELSE /\ ev'.kind = "Discard"
               /\ committed' = committed
               /\ <<status', nodeOf', futureIdle'>> =
                     <<atOpen.status, atOpen.nodeOf, atOpen.futureIdle>>]_vars

C3_Witness ==
    /\ ev.kind = "Discard"
    /\ Len(ev.ops) >= 2
    /\ assigned
    /\ status = atOpen.status

\* C4: a task evicted in the cross-job phase is Running when evicted, its job is
\* in the queue of the preemptor's job, and it is not of the preemptor's job.
C4_CrossJobVictims ==
    [][(ev'.kind = "Evict" /\ ev'.ok /\ mode = "cross") =>
          /\ status[ev'.task] = "Running"
          /\ JobQueue(TaskJob(ev'.task)) = JobQueue(TaskJob(preemptor))
          /\ TaskJob(ev'.task) # TaskJob(preemptor)]_vars

C4_Witness ==
    /\ ev.kind = "Evict" /\ ev.ok /\ mode = "cross"
    /\ \E t \in Tasks :
          /\ status[t] = "Running" /\ nodeOf[t] = ev.node
          /\ JobQueue(TaskJob(t)) # JobQueue(TaskJob(preemptor))
    /\ \E t \in Tasks :
          /\ status[t] = "Running" /\ nodeOf[t] = ev.node
          /\ TaskJob(t) = TaskJob(preemptor)

\* C5: a task evicted in the intra-job phase is Running when evicted and is of
\* the preemptor's job.
C5_IntraJobVictims ==
    [][(ev'.kind = "Evict" /\ ev'.ok /\ mode = "intra") =>
          /\ status[ev'.task] = "Running"
          /\ TaskJob(ev'.task) = TaskJob(preemptor)]_vars

C5_Witness ==
    /\ ev.kind = "Evict" /\ ev.ok /\ mode = "intra"
    /\ \E t \in Tasks :
          /\ status[t] = "Running" /\ nodeOf[t] = ev.node
          /\ TaskJob(t) # TaskJob(preemptor)

\* C6: within a node attempt an Evict is issued only while the preemptor's
\* request is not <= the node's FutureIdle, and when the eviction loop ends,
\* taking back the last successful eviction would leave the request unmet.
C6_MinimalEviction ==
    [][/\ ev'.kind = "Evict" =>
             ~LessEqual(InitResreq(preemptor), futureIdle[Head(selectedNodes)])
       /\ (ev'.kind = "EvictDone" /\ EvictedHere # <<>>) =>
             ~LessEqual(InitResreq(preemptor),
                        Sub(futureIdle[Head(selectedNodes)], Resreq(Last(EvictedHere).task)))]_vars

C6_Witness ==
    /\ pc = "pipeline"
    /\ EvictedHere # <<>>
    /\ victimsQueue # {}
    /\ LessEqual(InitResreq(preemptor), futureIdle[Head(selectedNodes)])

\* C7: when the selected victim set of a node is empty, or FutureIdle plus the
\* victims' requests is not >= the preemptor's request, the node is skipped:
\* nothing is evicted or pipelined, the node state and the Statement are
\* unchanged and preempt goes on with the next node.
C7_InvalidVictimsSkipNode ==
    [][(pc = "node" /\ selectedNodes # <<>>
        /\ (ev'.victims = {}
            \/ ~LessEqual(InitResreq(preemptor),
                          Add(futureIdle[Head(selectedNodes)], SumResreq(ev'.victims))))) =>
          /\ ev'.kind = "Skip"
          /\ UNCHANGED <<nodeVars, stmt, committed>>
          /\ selectedNodes' = Tail(selectedNodes)
          /\ pc' = "node"]_vars

C7_Witness ==
    /\ ev.kind = "Skip"
    /\ ev.victims # {}
    /\ selectedNodes # <<>>

\* C8: within a node attempt, when a victim is evicted no victim still in the
\* queue is ranked strictly after it by TaskOrderFn: the lower ranked go first.
C8_LowestPriorityFirst ==
    [][ev'.kind = "Evict" =>
          \A b \in victimsQueue' : ~TaskOrderFn(ev'.task, b)]_vars

C8_Witness ==
    /\ ev.kind = "Evict"
    /\ \E i \in 1..(Len(callLog) - 1) :
          /\ callLog[i].kind = "Evict"
          /\ callLog[i].node = ev.node
          /\ TaskOrderFn(ev.task, callLog[i].task)

\* C9: preempt visits the nodes in ranked order; a Pipeline is the last thing a
\* call does, on a node all of whose predecessors in the ranking were visited
\* and were skipped or did not fit; nothing is done on a node ranked after it.
C9_FirstFittingNode ==
    InPreempt =>
        /\ \A i \in 1..Len(callLog) :
              /\ \E r \in 1..Len(rankedNodes) : rankedNodes[r] = callLog[i].node
              /\ \A k \in 1..Len(callLog) :
                    i < k => RankOf(callLog[i].node) <= RankOf(callLog[k].node)
              /\ callLog[i].kind = "Pipeline" =>
                    /\ i = Len(callLog)
                    /\ selectedNodes = <<>>
                    /\ \A r \in 1..(RankOf(callLog[i].node) - 1) :
                          \E k \in 1..(i - 1) :
                             /\ callLog[k].node = rankedNodes[r]
                             /\ callLog[k].kind \in {"Skip", "Unfit"}
        /\ pAssigned <=> (callLog # <<>> /\ Last(callLog).kind = "Pipeline")

C9_Witness ==
    /\ pc = "node"
    /\ Len(rankedNodes) = 2
    /\ callLog # <<>>
    /\ Last(callLog).kind = "Pipeline"
    /\ Last(callLog).node = rankedNodes[1]
    /\ Preemptees(rankedNodes[2]) # {}

\* C10: with an empty ranked node list preempt returns false and changes no
\* node state, no task state and not the Statement.
C10_NoNodesNoChange ==
    [][/\ (pc = "preempt" /\ rankedNodes' = <<>>) =>
             /\ UNCHANGED <<nodeVars, stmt, committed>>
             /\ selectedNodes' = <<>>
             /\ ~pAssigned'
       /\ (pc = "node" /\ rankedNodes = <<>>) =>
             /\ ev'.kind = "PreemptReturn"
             /\ ~ev'.ok
             /\ UNCHANGED <<nodeVars, stmt, committed>>]_vars

C10_Witness ==
    /\ ev.kind = "PreemptReturn"
    /\ ev.ops = <<>>
    /\ ~ev.ok
    /\ stmt.open

\* the preemptor jobs Phase 0 collected
UnderRequestJobs == {underRequest[i] : i \in 1..Len(underRequest)}

\* job b is popped by the cross-job loop, or an operation is logged for a task of b
PoppedOrServed(b) ==
    \/ ev.kind = "Open" /\ preemptorJob = b
    \/ ev.kind \in {"Evict", "Pipeline"} /\ ev.ok /\ TaskJob(preemptor) = b

\* C11 as stated: for all preemptor jobs A, B with JobOrderFn(A, B), B is not
\* popped and nothing is evicted or pipelined for B before A's Statement was
\* committed or discarded.
C11_ResolvedBeforeAnyLowerJob ==
    \A a, b \in UnderRequestJobs :
        (JobOrderFn(a, b) /\ PoppedOrServed(b)) => a \in resolved

\* C11, amended: for preemptor jobs A, B of the same queue with JobOrderFn(A, B),
\* B is not popped by the cross-job loop, and nothing is evicted or pipelined
\* for B in the cross-job phase, before A's Statement was committed or discarded.
C11_ResolvedBeforeLowerJobOfQueue ==
    \A a, b \in UnderRequestJobs :
        (/\ JobOrderFn(a, b)
         /\ JobQueue(a) = JobQueue(b)
         /\ mode = "cross" \/ ev.kind = "Open"
         /\ PoppedOrServed(b)) => a \in resolved

C11_Witness ==
    /\ {"j1", "j2"} \subseteq UnderRequestJobs
    /\ mode = "cross"
    /\ ev.kind = "Evict" /\ ev.ok
    /\ TaskJob(preemptor) = "j2"
    /\ "j1" \in resolved

\* the open Statement is one the intra-job loop opened
IntraStatementOpen ==
    /\ stmt.open
    /\ mode = "intra"
    /\ pc \in {"preempt", "node", "evict", "pipeline", "intraCommit"}

\* C12: a Statement opened in the intra-job phase is closed by a Commit that
\* makes its whole log durable and leaves the node state as it is, never by a
\* Discard, whether or not the preemptor was assigned and whatever the log
\* holds; the step after preempt returns is that Commit.
C12_IntraAlwaysCommits ==
    [][/\ (IntraStatementOpen /\ ~stmt'.open) =>
             /\ ev'.kind = "Commit"
             /\ committed' = committed \o stmt.ops
             /\ UNCHANGED nodeVars
       /\ pc = "intraCommit" => (IntraStatementOpen /\ ~stmt'.open)]_vars

C12_Witness ==
    /\ ev.kind = "Commit"
    /\ pc = "intra"
    /\ ~assigned
    /\ ev.ops = <<>>
    /\ ~stmt.open

\* C13: a Statement is opened only when none is open, and opened empty; Commit
\* and Discard are called only on the open Statement and close it, and nothing
\* else closes it; Execute returns with no Statement open. So every Statement
\* gets exactly one terminal call before the next is opened and before the
\* return, and at most one is open at any time.
C13_OneTerminalCall ==
    [][/\ ev'.kind \in {"Open", "IntraPop"} <=> (~stmt.open /\ stmt'.open)
       /\ ev'.kind \in {"Open", "IntraPop"} => stmt'.ops = <<>>
       /\ ev'.kind \in {"Commit", "Discard"} <=> (stmt.open /\ ~stmt'.open)
       /\ pc' = "done" => ~stmt'.open]_vars

C13_Witness ==
    /\ ev.kind = "IntraPop"
    /\ stmt.open
    /\ Cardinality(resolved) = 2
    /\ committed # <<>>

\* --- the last call of preempt, as lastCall recorded it
CallNode == lastCall.nodes[1]

CallJob == TaskJob(lastCall.task)

\* the Running tasks of other jobs of the preemptor's queue on the node, at the call
CallCandidates ==
    {t \in Tasks : /\ lastCall.before.nodeOf[t] = CallNode
                   /\ lastCall.before.status[t] = "Running"
                   /\ JobQueue(TaskJob(t)) = JobQueue(CallJob)
                   /\ TaskJob(t) # CallJob}

CallEvicted == {lastCall.log[i].task : i \in {k \in 1..Len(lastCall.log) : lastCall.log[k].kind = "Evict"}}

CallEvictions == SelectSeq(lastCall.log, LAMBDA e : e.kind = "Evict")

CallFits(S) ==
    LessEqual(InitResreq(lastCall.task), Add(lastCall.before.futureIdle[CallNode], SumResreq(S)))

CallReadyBefore ==
    Cardinality({t \in Tasks : TaskJob(t) = CallJob
                                /\ lastCall.before.status[t] \in {"Running", "Pipelined"}})

\* the case of C14: the inner loop of the cross-job phase has ended after a
\* call for a task of the queue's highest-ranked job, one feasible node, the
\* request above its FutureIdle, candidates of lower-ranked jobs only, all of
\* them selected, enough together, and no Evict or Pipeline failed
C14_Case ==
    /\ pc = "resolve"
    /\ lastCall.returned
    /\ Len(lastCall.nodes) = 1
    /\ \A j \in Jobs : JobQueue(j) = JobQueue(CallJob) => ~JobOrderFn(j, CallJob)
    /\ ~CallFits({})
    /\ \A t \in CallCandidates : JobOrderFn(CallJob, TaskJob(t))
    /\ lastCall.log # <<>>
    /\ lastCall.log[1].victims = CallCandidates
    /\ CallFits(CallCandidates)
    /\ \A i \in 1..Len(lastCall.log) : lastCall.log[i].ok

\* what C14 promises: victims are evicted until the request fits (all of them
\* when no proper subset is enough), the task is pipelined on the node, the job
\* is pipelined, and the step that follows commits the Statement with these
\* operations in its log
C14_Outcome ==
    /\ CallEvicted # {}
    /\ CallEvicted \subseteq CallCandidates
    /\ CallFits(CallEvicted)
    /\ ~CallFits(CallEvicted \ {Last(CallEvictions).task})
    /\ (\A S \in SUBSET CallCandidates : S # CallCandidates => ~CallFits(S))
          => CallEvicted = CallCandidates
    /\ \A t \in CallEvicted : status[t] = "Releasing"
    /\ lastCall.ok
    /\ Last(lastCall.log).kind = "Pipeline"
    /\ status[lastCall.task] = "Pipelined"
    /\ nodeOf[lastCall.task] = CallNode
    /\ JobPipelined(CallJob)
    /\ ev'.kind = "Commit"
    /\ committed' = committed \o stmt.ops
    /\ \A t \in CallEvicted : \E i \in 1..Len(stmt.ops) :
          stmt.ops[i].name = "evict" /\ stmt.ops[i].task = t
    /\ Last(stmt.ops) = PipelineOp(lastCall.task, CallNode)
    /\ UNCHANGED nodeVars

ScenarioD ==
    /\ pendingGroups = {"j2", "j3", "j4"}
    /\ minAvailable["j1"] = 2
    /\ status["p1"] \in {"Pending", "Pipelined"}
    /\ status["p2"] \in {"Running", "Releasing"}
    /\ TaskOrderFn("p1", "p2")
    /\ LessEqual(InitResreq("p1"), allocatable["n2"])
    /\ ~LessEqual(InitResreq("p1"), Sub(allocatable["n2"], Resreq("p2")))

\* C15: in scenario D, when Execute returns p2 is evicted, p1 is pipelined on
\* n2 and both operations are committed.
C15_IntraJobPreemptionTakesPlace ==
    (pc = "done" /\ ScenarioD) =>
        /\ status["p2"] = "Releasing"
        /\ status["p1"] = "Pipelined"
        /\ nodeOf["p1"] = "n2"
        /\ committed = <<EvictOp("p2"), PipelineOp("p1", "n2")>>

\* in scenario D nothing is ever evicted, pipelined or committed, whatever the
\* node ranking and the victim selection answer: the cross-job loop pops p1,
\* finds no victim of another job, and leaves the intra-job loop an empty queue
ScenarioD_NothingHappens ==
    ScenarioD =>
        /\ status["p1"] = "Pending"
        /\ status["p2"] = "Running"
        /\ committed = <<>>
        /\ stmt.ops = <<>>
        /\ pc = "intra" => preemptorTasks["j1"] = {}

CommittedOps == {committed[i] : i \in 1..Len(committed)}

\* C16 as stated: two runs of Execute on the same snapshot with the same
\* policies, whatever the order of the queues in each, commit the same set of
\* evictions and placements.
C16_SameForEveryQueueOrder ==
    (pc = "done" /\ firstRun.done) => CommittedOps = firstRun.ops

\* the step is one of the cross-job loop of the current queue
InCrossJobPhase ==
    \/ pc \in {"cross", "tasks", "resolve"}
    \/ pc \in {"preempt", "node", "evict", "pipeline"} /\ mode = "cross"

\* C16, amended: the cross-job loop of a queue changes the status and the node
\* of tasks of that queue's jobs only, and every operation it commits is on
\* such a task; tasks of the jobs of other queues are left as they are.
C16_CrossJobStaysInQueue ==
    [][InCrossJobPhase =>
          /\ \A t \in Tasks : JobQueue(TaskJob(t)) # queue =>
                 (status'[t] = status[t] /\ nodeOf'[t] = nodeOf[t])
          /\ \A i \in 1..Len(stmt'.ops) : JobQueue(TaskJob(stmt'.ops[i].task)) = queue
          /\ \A i \in (Len(committed) + 1)..Len(committed') :
                 JobQueue(TaskJob(committed'[i].task)) = queue]_vars

C16_Witness ==
    /\ firstRun.done
    /\ ev.kind = "Commit"
    /\ pc = "cross"
    /\ \E i \in 1..Len(ev.ops) : ev.ops[i].name = "evict"
    /\ \E t \in Tasks : /\ JobQueue(TaskJob(t)) # queue
                         /\ status[t] = "Running"
                         /\ \E i \in 1..Len(ev.ops) : ev.ops[i].node = nodeOf[t]
    /\ CommittedOps # firstRun.ops

\* the queues the range of line 86 has reached: the current one and those before
RangedQueues == {JobQueue(j) : j \in {x \in Jobs : Eligible(x)}} \ queues

\* C17 as stated: a pending task of a job is popped for intra-job preemption
\* only when the cross-job loop of the job's own queue has run to completion.
C17_IntraAfterOwnQueueCrossPhase ==
    ev.kind = "IntraPop" =>
        /\ JobQueue(TaskJob(ev.task)) \in RangedQueues
        /\ preemptorsMap[JobQueue(TaskJob(ev.task))] = {}
        /\ \A j \in UnderRequestJobs :
               JobQueue(j) = JobQueue(TaskJob(ev.task)) => j \in resolved

\* C17, amended: a pending task is popped for intra-job preemption only when
\* the cross-job loop of the queue of the current iteration has run to
\* completion: no preemptor job is left in that queue and the Statement of each
\* of its preemptor jobs was committed or discarded.
C17_IntraAfterCurrentQueueCrossPhase ==
    ev.kind = "IntraPop" =>
        /\ queue \in RangedQueues
        /\ preemptorsMap[queue] = {}
        /\ \A j \in UnderRequestJobs : JobQueue(j) = queue => j \in resolved

C17_Witness ==
    /\ ev.kind = "IntraPop"
    /\ JobQueue(TaskJob(ev.task)) # queue
    /\ JobQueue(TaskJob(ev.task)) \in queues
    /\ resolved # {}

\* the step is a call of stmt.Evict (line 235) that returns an error
EvictErrorStep == pc = "evict" /\ ev'.kind = "Evict" /\ ~ev'.ok

\* the step is a call of stmt.Pipeline (line 248) that returns an error
PipelineErrorStep == pc = "pipeline" /\ ev'.kind = "Pipeline" /\ ~ev'.ok

\* a failed Evict changes no task, node or Statement, and the eviction loop of
\* the same node goes on with the remaining victims
VictimAbandoned ==
    /\ UNCHANGED <<nodeVars, stmtVars, selectedNodes, pAssigned>>
    /\ victimsQueue' = victimsQueue \ {ev'.task}
    /\ pc' = "evict"

\* Execute returns only when the range over the queues is over, with no
\* preemptor job left in any queue and no Statement open
ReturnsAtEndOnly ==
    (pc # "done" /\ pc' = "done") =>
        /\ queues = {}
        /\ \A q \in Queues : preemptorsMap[q] = {}
        /\ ~stmt.open

\* C18 as stated: after an error of stmt.Evict the victim is abandoned and the
\* loop goes on with the remaining victims; after an error of stmt.Pipeline
\* the node attempt is abandoned and preempt goes on with the remaining nodes;
\* no error ends Execute early.
C18_GoesOnWithRemainingNodes ==
    [][/\ EvictErrorStep => VictimAbandoned
       /\ PipelineErrorStep =>
              /\ UNCHANGED <<nodeVars, stmtVars>>
              /\ selectedNodes' = Tail(selectedNodes)
              /\ pc' = "node"
       /\ ReturnsAtEndOnly]_vars

\* C18, amended: after an error of stmt.Evict the victim is abandoned and the
\* loop goes on with the remaining victims; after an error of stmt.Pipeline
\* the node attempt is abandoned with no placement, preempt tries no further
\* node and returns true; Execute goes on with the remaining preemptors, jobs
\* and queues, and no error ends it early.
C18_ErrorsAreLocal ==
    [][/\ EvictErrorStep => VictimAbandoned
       /\ PipelineErrorStep =>
              /\ UNCHANGED <<nodeVars, stmtVars>>
              /\ selectedNodes' = <<>>
              /\ pAssigned'
              /\ pc' = "node"
       /\ ReturnsAtEndOnly]_vars

C18_Witness ==
    /\ ev.kind = "Pipeline"
    /\ ~ev.ok
    /\ Len(rankedNodes) = 2
    /\ ev.node = rankedNodes[1]
    /\ selectedNodes = <<>>
    /\ \E i \in 1..Len(callLog) : callLog[i].kind = "Evict" /\ ~callLog[i].ok
    /\ \E i \in 1..Len(callLog) : callLog[i].kind = "Evict" /\ callLog[i].ok

\* the tasks that are Pending when Execute is entered
PendingAtStart == {t \in Tasks : initial.status[t] = "Pending"}

\* a committed Statement holds the placement that task t has now
PipelinedByCommit(t) ==
    /\ status[t] = "Pipelined"
    /\ \E i \in 1..Len(committed) : committed[i] = PipelineOp(t, nodeOf[t])

\* a discarded Statement held a placement of task t
PipelinedInDiscarded(t) ==
    \E i \in 1..Len(discarded) : discarded[i].name = "pipeline" /\ discarded[i].task = t

\* C19: when Execute has returned, every task that was Pending at the start
\* is either pipelined by a committed Statement or Pending on no node; a task
\* with no committed placement, be it that preempt found no node for it or
\* that its placement was in a discarded Statement, is Pending.
C19_PendingOrPipelinedAtEnd ==
    pc = "done" =>
        \A t \in PendingAtStart :
            /\ PipelinedByCommit(t) \/ (status[t] = "Pending" /\ nodeOf[t] = "none")
            /\ (\A i \in 1..Len(committed) :
                    ~(committed[i].name = "pipeline" /\ committed[i].task = t))
                   => status[t] = "Pending"

C19_Witness ==
    /\ pc = "done"
    /\ \E t \in PendingAtStart : PipelinedByCommit(t)
    /\ \E t \in PendingAtStart : PipelinedInDiscarded(t) /\ status[t] = "Pending"
    /\ \E t \in PendingAtStart :
           /\ ~PipelinedInDiscarded(t)
           /\ t \notin preemptorTasks[TaskJob(t)]
           /\ status[t] = "Pending"

\* a job popped by the cross-job loop is being served
CrossJobOpen ==
    \/ pc \in {"tasks", "resolve"}
    \/ pc \in {"preempt", "node", "evict", "pipeline"} /\ mode = "cross"

\* the number of elements in the queues f[x], x in S; no element is in two
\* of them, a task being of one job and a job of one queue
SumCard(f, S) == Cardinality(UNION {f[x] : x \in S})

\* pops still possible: two for each pending task in a task queue, one for each
\* job in a preemptor queue, one for the push back (line 141) that the job
\* being served may still get
PopsLeft ==
    2 * SumCard(preemptorTasks, Jobs) + SumCard(preemptorsMap, Queues)
      + (IF CrossJobOpen /\ (assigned \/ pc \notin {"tasks", "resolve"}) THEN 1 ELSE 0)

\* position within one iteration of a loop body
PcRank ==
    CASE pc = "node" -> 6
      [] pc = "evict" -> 5
      [] pc = "pipeline" -> 4
      [] pc \in {"tasks", "intraCommit"} -> 3
      [] pc \in {"resolve", "intra"} -> 2
      [] pc \in {"cross", "queues"} -> 1
      [] OTHER -> 0

\* the queues of line 86 still to range over, twice, plus one while an
\* iteration is running
QueuesLeft ==
    2 * Cardinality(queues) + (IF pc \in {"collect", "queues", "done"} THEN 0 ELSE 1)

\* the jobs of line 146 still to range over
JobsLeft == Len(underRequest) + 1 - jobIdx

\* the victims of line 226 still in the queue
VictimsLeft == IF pc = "evict" THEN Cardinality(victimsQueue) ELSE 0

\* what the components of Measure stay below
QueuesBase == 2 * Cardinality(Queues) + 2
PopsBase == 2 * Cardinality(Tasks) + Cardinality(Jobs) + 2
JobsBase == Cardinality(Jobs) + 2
NodesBase == Cardinality(Nodes) + 1
VictimsBase == Cardinality(Tasks) + 1

\* what is left to do as one natural: the position, in the lexicographic
\* order, of the tuple of what is left of Phase 0, of the queues, of the
\* cross-job loop before the intra-job loop, of the pops, of the jobs of line
\* 146, of the start of a preempt call, of the nodes of line 196, of the loop
\* body and of the victims, outermost loop first
Measure ==
    ((((((((IF pc = "collect" THEN 1 ELSE 0)
            * QueuesBase + QueuesLeft)
           * 2 + (IF pc = "cross" \/ CrossJobOpen THEN 1 ELSE 0))
          * PopsBase + PopsLeft)
         * JobsBase + JobsLeft)
        * 2 + (IF pc = "preempt" THEN 1 ELSE 0))
       * NodesBase + Len(selectedNodes))
      * 7 + PcRank)
     * VictimsBase + VictimsLeft

\* every component of Measure is a natural below its base
BelowBase ==
    /\ QueuesLeft \in 0..(QueuesBase - 1)
    /\ PopsLeft \in 0..(PopsBase - 1)
    /\ JobsLeft \in 0..(JobsBase - 1)
    /\ Len(selectedNodes) \in 0..(NodesBase - 1)
    /\ PcRank \in 0..6
    /\ VictimsLeft \in 0..(VictimsBase - 1)

\* C20: Execute terminates for every snapshot and every choice of policy
\* results: every step makes a natural number smaller, the lexicographic
\* position of what is left to do, so that only finitely many steps, and so
\* finitely many pops of the cross-job and intra-job loops, happen before
\* Execute returns.
C20_Terminates == [][Measure' < Measure /\ BelowBase']_vars

C20_Witness ==
    /\ pc = "done"
    /\ discarded # <<>>
    /\ Cardinality(resolved) >= 2
    /\ \E j \in resolved : \E i \in 1..Len(committed) :
           committed[i].name = "pipeline" /\ TaskJob(committed[i].task) = j

\* nothing was issued so far: every task and node is as at the entry of
\* Execute, no operation is logged, committed or discarded, and preempt is
\* not about to evict or to pipeline
Quiet ==
    /\ status = initial.status
    /\ nodeOf = initial.nodeOf
    /\ futureIdle = initial.futureIdle
    /\ stmt.ops = <<>>
    /\ committed = <<>>
    /\ discarded = <<>>
    /\ victimsQueue = {}
    /\ pc \notin {"evict", "pipeline"}

\* C21: as long as every answer of the victim-selection policy is the empty
\* set (none is asked for when the predicate rejects every node), Execute
\* issues no Evict and no Pipeline and leaves every node and task unchanged:
\* only a step in which the policy answers with a non-empty set ends Quiet.
C21_NoVictimsNoChange ==
    [][(Quiet /\ ev'.victims = {}) => Quiet']_vars

C21_Witness ==
    /\ pc = "done"
    /\ Quiet
    /\ resolved # {}
    /\ \E t \in PendingAtStart :
           /\ t \notin preemptorTasks[TaskJob(t)]
           /\ IsPreemptorJob(TaskJob(t))
           /\ \E n \in Nodes : LessEqual(InitResreq(t), FutureIdle(n))

\* the count the status update of the pending state compares with MinAvailable
ReadyPods(j) == j.running + j.succeeded + j.failed

\* the step is an Execute of the pending state for an action with no case of
\* its own
PendingDefaultStep ==
    /\ lastAction'.state = "pendingState"
    /\ lastAction'.action \notin KillActions

C23_RunningPodsAtLeastMinAvailable ==
    [][(job.phase = "Pending" /\ job'.phase = "Running")
          => job'.running >= job'.minAvailable]_vars

\* what the code ensures instead: the Running, Succeeded and Failed pods
\* together are at least MinAvailable
C23_ReadyPodsAtLeastMinAvailable ==
    [][(job.phase = "Pending" /\ job'.phase = "Running")
          => ReadyPods(job') >= job'.minAvailable]_vars

\* the jobs that qualify as preemptor jobs on the snapshot taken at the entry of
\* Execute, and the tasks of a job that are Pending on it
PendingAtEntry(j) == {t \in Tasks : taskJob[t] = j /\ initial.status[t] = "Pending"}

ReadyAtEntry(j) ==
    {t \in Tasks : taskJob[t] = j /\ initial.status[t] \in {"Running", "Pipelined"}}

QualifiesAtEntry(j) ==
    /\ j \notin pendingGroups
    /\ jobValid[j] # "fail"
    /\ JobQueue(j) \in sessionQueues
    /\ PendingAtEntry(j) # {}
    /\ Cardinality(ReadyAtEntry(j)) < minAvailable[j]

\* C24: Phase 0 makes a job a preemptor job exactly when its PodGroup is not
\* Pending, JobValid does not fail it, its queue is in the session, it has a
\* Pending task and it is not pipelined; right after Phase 0 the task queue of
\* such a job holds exactly its Pending tasks and every other task queue is
\* empty; no other job is ever popped as preemptor job and no other task is
\* ever popped or handed to preempt as preemptor.
C24_PreemptorsAreTheQualifyingJobs ==
    LET Q == {j \in Jobs : QualifiesAtEntry(j)}
        P == {t \in Tasks : taskJob[t] \in Q /\ initial.status[t] = "Pending"}
    IN /\ pc # "collect" =>
             /\ UnderRequestJobs = Q
             /\ \A j \in Jobs : preemptorTasks[j] \subseteq {t \in P : taskJob[t] = j}
             /\ \A q \in Queues : preemptorsMap[q] \subseteq {j \in Q : JobQueue(j) = q}
       /\ ev.kind = "Collect" =>
             /\ \A j \in Jobs : preemptorTasks[j] = {t \in P : taskJob[t] = j}
             /\ \A q \in Queues : preemptorsMap[q] = {j \in Q : JobQueue(j) = q}
       /\ preemptorJob # "none" => preemptorJob \in Q
       /\ preemptor # "none" => preemptor \in P
       /\ lastCall.task # "none" => lastCall.task \in P

\* a cycle in which j1 was served as preemptor job while ssn.JobValid failed j2,
\* which has a Pending task and is not pipelined
C24_Witness ==
    /\ pc = "done"
    /\ jobValid["j2"] = "fail"
    /\ PendingAtEntry("j2") # {} /\ Cardinality(ReadyAtEntry("j2")) < minAvailable["j2"]
    /\ "j2" \notin UnderRequestJobs
    /\ QualifiesAtEntry("j1")
    /\ "j1" \in resolved /\ committed # <<>>
\* the calls of stmt.Pipeline in the call of preempt that has just returned
ReturnedPipelines ==
    {i \in 1..Len(lastCall.log) :
        lastCall.log[i].kind = "Pipeline" /\ lastCall.log[i].task = lastCall.task}

\* the Statement holds a placement of the preemptor of that call on node n
PlacementLogged(n) ==
    \E k \in 1..Len(stmt.ops) : stmt.ops[k] = PipelineOp(lastCall.task, n)

\* C25: preempt returns true only if a Pipeline placement of the preemptor was
\* logged in the Statement without error; a call in which stmt.Pipeline returned
\* an error does not return true.
C25_TrueOnlyIfPlacementLogged ==
    lastCall.returned =>
        /\ lastCall.ok =>
              \E i \in ReturnedPipelines :
                  lastCall.log[i].ok /\ PlacementLogged(lastCall.log[i].node)
        /\ \A i \in ReturnedPipelines : ~lastCall.log[i].ok => ~lastCall.ok

\* C25, amended: preempt returns true only if stmt.Pipeline was called for the
\* preemptor on some node, and the placement is in the Statement exactly when
\* that call returned no error; a call in which stmt.Pipeline returned an error
\* logs no placement, leaves the preemptor Pending and still returns true.
C25_TrueOnlyIfPipelineCalled ==
    lastCall.returned =>
        /\ lastCall.ok =>
              \E i \in ReturnedPipelines :
                  lastCall.log[i].ok <=> PlacementLogged(lastCall.log[i].node)
        /\ \A i \in ReturnedPipelines :
              ~lastCall.log[i].ok =>
                  /\ lastCall.ok
                  /\ \A n \in Nodes : ~PlacementLogged(n)
                  /\ status[lastCall.task] = "Pending"

\* preempt has returned true after stmt.Pipeline returned an error on a node
\* whose FutureIdle covered the request of the preemptor
C25_Witness ==
    /\ lastCall.returned
    /\ lastCall.ok
    /\ \E i \in ReturnedPipelines :
          /\ ~lastCall.log[i].ok
          /\ LessEqual(InitResreq(lastCall.task), FutureIdle(lastCall.log[i].node))

\* preempt is past the eviction loop of a node whose victim set validated, and
\* no call of stmt.Evict on that node returned without error
NoEvictionSucceeded ==
    /\ pc = "pipeline"
    /\ \A i \in 1..Len(callLog) :
          ~(callLog[i].kind = "Evict" /\ callLog[i].ok
            /\ callLog[i].node = Head(selectedNodes))

\* the step logs no placement, reports no assignment and leaves the rest of
\* the ranked nodes to be visited
GoesOnToNextNode ==
    /\ ev'.kind # "Pipeline"
    /\ UNCHANGED <<nodeVars, stmt, pAssigned>>
    /\ selectedNodes' = Tail(selectedNodes)
    /\ pc' = "node"

\* C26: if the victim set of a node validates and no eviction succeeds on the
\* node, preempt logs no Pipeline placement on it and goes on to the next
\* ranked node.
C26_NoEvictionNoPipeline ==
    [][NoEvictionSucceeded => GoesOnToNextNode]_vars

\* C26, amended: the same when the request of the preemptor did not fit the
\* FutureIdle of the node at the call of preempt; when it did, the eviction
\* loop ends before its first eviction and stmt.Pipeline is called on the node.
C26_NoEvictionNoPipelineUnlessFits ==
    [][NoEvictionSucceeded =>
          IF LessEqual(InitResreq(preemptor), lastCall.before.futureIdle[Head(selectedNodes)])
          THEN /\ ev'.kind = "Pipeline"
               /\ \A i \in 1..Len(callLog) : callLog[i].node # Head(selectedNodes)
                                                 \/ callLog[i].kind # "Evict"
          ELSE GoesOnToNextNode]_vars

\* every eviction of a validated victim set has failed on the first of two
\* ranked nodes; nothing was logged and the second node is still to be visited
C26_Witness ==
    /\ ev.kind = "Unfit"
    /\ selectedNodes # <<>>
    /\ stmt.ops = <<>>
    /\ ~pAssigned
    /\ \E i \in 1..Len(callLog) :
          callLog[i].kind = "Evict" /\ ~callLog[i].ok /\ callLog[i].node = ev.node
    /\ \A i \in 1..Len(callLog) : callLog[i].kind = "Evict" => ~callLog[i].ok

\* C27: once the cross-job Statement of a preemptor job is discarded, the job
\* is in no preemptor queue and its task queue is empty; it is never popped as
\* preemptor job again, and none of its tasks is popped or handed to preempt
\* again, in the cross-job or in the intra-job phase.
C27_DiscardedJobIsDone ==
    [][/\ \A j \in dropped' :
             /\ \A q \in Queues : j \notin preemptorsMap'[q]
             /\ preemptorTasks'[j] = {}
       /\ ev'.kind = "Open" => preemptorJob' \notin dropped
       /\ ev'.kind \in {"PopPreemptor", "IntraPop", "Preempt"} =>
             TaskJob(ev'.task) \notin dropped]_vars

\* the intra-job loop has come to a job whose cross-job Statement was
\* discarded with operations in it, and a task of the job is still Pending
C27_Witness ==
    /\ pc = "intra"
    /\ jobIdx <= Len(underRequest)
    /\ underRequest[jobIdx] \in dropped
    /\ discarded # <<>>
    /\ PendingTasks(underRequest[jobIdx]) # {}

\* the step pops a pending task as preemptor, in either phase
PopsTask == ev'.kind \in {"PopPreemptor", "IntraPop"}

\* C28: once a preemptor task of a job was not assigned in the intra-job
\* phase, no further pending task of the job is popped in the cycle.
C28_NoAttemptAfterIntraFailure ==
    [][PopsTask => \A f \in intraFailed : f[1] # TaskJob(ev'.task)]_vars

\* C28, amended: once a preemptor task of a job was not assigned in the
\* intra-job loop of a queue's iteration, that loop goes on with the next job,
\* and no further pending task of the job is popped in the iteration of that
\* queue; the iteration of a later queue may pop one.
C28_NoAttemptInSameIteration ==
    [][/\ PopsTask => \A f \in intraFailed : f[1] = TaskJob(ev'.task) => f[2] # queue'
       /\ (pc = "intraCommit" /\ ~assigned) =>
             /\ <<underRequest[jobIdx], queue>> \in intraFailed'
             /\ jobIdx' = jobIdx + 1
             /\ pc' = "intra"]_vars

\* in the iteration of q1 a task of j1 is popped, after another task of j1 was
\* not assigned in the intra-job loop of the iteration of q2
C28_Witness ==
    /\ ev.kind = "PopPreemptor"
    /\ TaskJob(ev.task) = "j1"
    /\ queue = "q1"
    /\ <<"j1", "q2">> \in intraFailed

\* the step commits the cross-job Statement of the popped preemptor job
CrossCommitStep == pc = "resolve" /\ ev'.kind = "Commit"

\* the Statement holds a placement of a task of job j
PlacedInStatement(j) ==
    \E k \in 1..Len(stmt.ops) : stmt.ops[k].name = "pipeline" /\ TaskJob(stmt.ops[k].task) = j

\* job j was pipelined when the current Statement was opened
PipelinedAtOpen(j) ==
    Cardinality({t \in Tasks : TaskJob(t) = j /\ atOpen.status[t] \in {"Running", "Pipelined"}})
        >= minAvailable[j]

\* C29: after a cross-job commit the job is back in the preemptor queue of its
\* queue exactly when a call of preempt of this pop returned true, which is
\* exactly when the Statement places one of its tasks; a job popped while
\* pipelined makes no call of preempt, commits an empty Statement and is not
\* pushed back.
C29_PushedBackIffAssigned ==
    [][CrossCommitStep =>
          /\ queue = JobQueue(preemptorJob)
          /\ preemptorJob \notin preemptorsMap[queue]
          /\ preemptorJob \in preemptorsMap'[queue] <=> assigned
          /\ assigned <=> PlacedInStatement(preemptorJob)
          /\ \A q \in Queues \ {queue} : preemptorsMap'[q] = preemptorsMap[q]
          /\ PipelinedAtOpen(preemptorJob) =>
                /\ lastCall = NoCall
                /\ ~assigned
                /\ stmt.ops = <<>>
                /\ preemptorJob \notin preemptorsMap'[queue]]_vars

\* a job that was pushed back after a commit with a placement has been popped
\* again while pipelined, and its empty Statement has just been committed
C29_Witness ==
    /\ pc = "cross"
    /\ ev.kind = "Commit"
    /\ ev.ops = <<>>
    /\ PipelinedAtOpen(preemptorJob)
    /\ preemptorJob \notin preemptorsMap[queue]
    /\ \E k \in 1..Len(committed) :
          committed[k].name = "pipeline" /\ TaskJob(committed[k].task) = preemptorJob

\* C30: in the cross-job and in the intra-job phase, no task is popped as
\* preemptor while the task queue of its job holds a task that TaskOrderFn
\* ranks strictly before it.
C30_PopsInTaskOrder ==
    [][PopsTask =>
          /\ ev'.task \in preemptorTasks[TaskJob(ev'.task)]
          /\ preemptorTasks'[TaskJob(ev'.task)] =
                 preemptorTasks[TaskJob(ev'.task)] \ {ev'.task}
          /\ \A u \in preemptorTasks'[TaskJob(ev'.task)] :
                 ~(TaskOrderFn(u, ev'.task) /\ ~TaskOrderFn(ev'.task, u))]_vars

\* the intra-job loop has popped p1 while p2, of the same job and ranked
\* strictly after it, stays in the task queue
C30_Witness ==
    /\ ev.kind = "IntraPop"
    /\ ev.task = "p1"
    /\ "p2" \in preemptorTasks[TaskJob("p1")]
    /\ TaskOrderFn("p1", "p2") /\ ~TaskOrderFn("p2", "p1")

\* C31: every node an Evict or a Pipeline of a call of preempt is about, and
\* every node the call looks at, is a node the predicate accepts for the
\* preemptor, and a victim it evicts sits on such a node; the rejected nodes
\* are left out of the ranked nodes and nothing else is, and a call that
\* assigns nothing has looked at every accepted node.
C31_RejectedNodesUntouched ==
    /\ {lastCall.nodes[i] : i \in 1..Len(lastCall.nodes)} = lastCall.accepted
    /\ \A i \in 1..Len(callLog) :
          /\ callLog[i].node \in lastCall.accepted
          /\ (callLog[i].kind = "Evict" /\ callLog[i].ok) =>
                nodeOf[callLog[i].task] \in lastCall.accepted
    /\ \A i \in 1..Len(lastCall.log) : lastCall.log[i].node \in lastCall.accepted
    /\ \A k \in 1..Len(stmt.ops) :
          (IntraStatementOpen /\ lastCall.task # "none") =>
              stmt.ops[k].node \in lastCall.accepted
    /\ (lastCall.returned /\ ~lastCall.ok) =>
          \A n \in lastCall.accepted :
              \E i \in 1..Len(lastCall.log) : lastCall.log[i].node = n

\* the predicate rejected n1, on which a task runs that the filter of the call
\* lets through, and the call evicted and pipelined on n2
C31_Witness ==
    /\ lastCall.returned
    /\ lastCall.accepted = {"n2"}
    /\ \E t \in Tasks : lastCall.before.nodeOf[t] = "n1" /\ lastCall.before.status[t] = "Running"
                          /\ TaskJob(t) # TaskJob(lastCall.task)
                          /\ JobQueue(TaskJob(t)) = JobQueue(TaskJob(lastCall.task))
    /\ \E i \in 1..Len(lastCall.log) : lastCall.log[i].kind = "Evict" /\ lastCall.log[i].ok
    /\ \E i \in 1..Len(lastCall.log) : lastCall.log[i].kind = "Pipeline" /\ lastCall.log[i].ok
    /\ \A i \in 1..Len(lastCall.log) : lastCall.log[i].node = "n2"

\* C32: stmt.Pipeline is called only in a state where InitResreq of the
\* preemptor is at most FutureIdle of the node in every dimension; the debit of
\* a Pipeline that succeeds is exact (no dimension is cut off at zero), a
\* Discard gives every debit and credit back exactly, and no dimension of any
\* node's FutureIdle is ever negative.
C32_PipelineWithinFutureIdle ==
    [][/\ ev'.kind = "Pipeline" =>
             /\ LessEqual(InitResreq(ev'.task), futureIdle[ev'.node])
             /\ ev'.ok =>
                   /\ Add(futureIdle'[ev'.node], Resreq(ev'.task)) = futureIdle[ev'.node]
                   /\ \A n \in Nodes \ {ev'.node} : futureIdle'[n] = futureIdle[n]
       /\ ev'.kind = "Discard" => futureIdle' = atOpen.futureIdle
       /\ \A n \in Nodes, d \in Dims : futureIdle[n][d] >= 0 /\ futureIdle'[n][d] >= 0]_vars

\* after evictions on the node, a Pipeline has used up the cpu of the node's
\* FutureIdle exactly
C32_Witness ==
    /\ ev.kind = "Pipeline"
    /\ ev.ok
    /\ futureIdle[ev.node].cpu = 0
    /\ Resreq(ev.task).cpu > 0
    /\ \E i \in 1..Len(callLog) :
          callLog[i].kind = "Evict" /\ callLog[i].ok /\ callLog[i].node = ev.node

\* the relation R, a set of pairs, is a strict weak ordering of the elements S:
\* irreflexive, transitive, and with a transitive incomparability
StrictWeakOrdering(R, S) ==
    /\ \A x \in S : <<x, x>> \notin R
    /\ \A x, y, z \in S : (<<x, y>> \in R /\ <<y, z>> \in R) => <<x, z>> \in R
    /\ \A x, y, z \in S :
          (/\ <<x, y>> \notin R /\ <<y, x>> \notin R
           /\ <<y, z>> \notin R /\ <<z, y>> \notin R) =>
              (<<x, z>> \notin R /\ <<z, x>> \notin R)

\* the pairs of R that R does not also hold the other way round
StrictPart(R) == {c \in R : <<c[2], c[1]>> \notin R}

\* C33: the comparator of every Ordered Candidate Queue is a strict weak
\* ordering of the elements the queue holds: JobOrderFn on the preemptor jobs
\* of a queue, TaskOrderFn on the pending tasks of a job, and the inverted
\* comparator on the victims of a node, which in particular ranks no victim
\* before itself and no two victims each before the other.
C33_ComparatorsAreStrictWeakOrderings ==
    /\ \A q \in Queues : StrictWeakOrdering(JobLessFn, preemptorsMap[q])
    /\ \A j \in Jobs : StrictWeakOrdering(TaskLessFn, preemptorTasks[j])
    /\ StrictWeakOrdering(VictimLessFn, victimsQueue)
    /\ \A l, r \in victimsQueue : ~(<<l, r>> \in VictimLessFn /\ <<r, l>> \in VictimLessFn)

\* what holds of the code: the comparators of the preemptor jobs and of the
\* pending tasks are strict weak orderings, and so is the strict part of the
\* comparator of the victims, which is TaskOrderFn the other way round
C33_StrictPartsAreStrictWeakOrderings ==
    /\ \A q \in Queues : StrictWeakOrdering(JobLessFn, preemptorsMap[q])
    /\ \A j \in Jobs : StrictWeakOrdering(TaskLessFn, preemptorTasks[j])
    /\ StrictWeakOrdering(StrictPart(VictimLessFn), victimsQueue)
    /\ \A l, r \in victimsQueue :
          <<l, r>> \in StrictPart(VictimLessFn) <=> TaskOrderFn(r, l)

\* C34: every eviction of a committed Statement is on a node on which the same
\* Statement pipelined a preemptor.
C34_CommittedEvictionHasPlacementOnNode ==
    ev.kind = "Commit" =>
        \A i \in 1..Len(ev.ops) :
            ev.ops[i].name = "evict" =>
                \E k \in 1..Len(ev.ops) :
                    ev.ops[k].name = "pipeline" /\ ev.ops[k].node = ev.ops[i].node

\* what holds of the code: a cross-job Statement that is committed with an
\* eviction holds a placement of a task of the preemptor job, on some node
C34_CrossCommitWithEvictionHasPlacement ==
    (ev.kind = "Commit" /\ pc = "cross") =>
        ((\E i \in 1..Len(ev.ops) : ev.ops[i].name = "evict") =>
            \E k \in 1..Len(ev.ops) :
                ev.ops[k].name = "pipeline" /\ TaskJob(ev.ops[k].task) = preemptorJob)

\* C35: a task is popped as preemptor only if it was Pending at the entry of
\* Execute and was not popped before in this Execute, in either phase; after
\* Phase 0 no task queue gets a task, and a popped task is in no task queue.
C35_PoppedAtMostOnce ==
    [][/\ PopsTask =>
             /\ poppedIn[ev'.task] = "none"
             /\ initial.status[ev'.task] = "Pending"
       /\ pc # "collect" =>
             /\ \A j \in Jobs : preemptorTasks'[j] \subseteq preemptorTasks[j]
             /\ \A t \in Tasks : poppedIn[t] # "none" => poppedIn'[t] = poppedIn[t]
             /\ \A t \in Tasks : poppedIn'[t] # "none" => t \notin preemptorTasks'[taskJob[t]]]_vars

\* the intra-job loop has passed a job without a pop although a task of the
\* job, popped in the cross-job phase, is still Pending
C35_Witness ==
    /\ ev.kind = "IntraNextJob"
    /\ \E t \in Tasks :
          /\ TaskJob(t) = underRequest[jobIdx - 1]
          /\ poppedIn[t] = "cross"
          /\ status[t] = "Pending"

\* the operations of the Statements of this Execute: committed, open, discarded
OpsOfCycle == committed \o stmt.ops \o discarded

\* C36: no task is evicted twice by committed Statements of one Execute, and no
\* task that a Statement of this Execute pipelined is evicted in it: a victim
\* was Running at the entry of Execute, a pipelined task was Pending.
C36_EvictedOnceAndNeverAfterPipeline ==
    LET all == OpsOfCycle
        evicted == {all[i].task : i \in {k \in 1..Len(all) : all[k].name = "evict"}}
        pipelined == {all[i].task : i \in {k \in 1..Len(all) : all[k].name = "pipeline"}}
    IN  /\ \A i, k \in 1..Len(committed) :
              (/\ i # k
               /\ committed[i].name = "evict"
               /\ committed[k].name = "evict") => committed[i].task # committed[k].task
        /\ \A i, k \in 1..Len(stmt.ops) :
              (/\ i # k
               /\ stmt.ops[i].name = "evict"
               /\ stmt.ops[k].name = "evict") => stmt.ops[i].task # stmt.ops[k].task
        /\ \A i \in 1..Len(committed), k \in 1..Len(stmt.ops) :
              (committed[i].name = "evict" /\ stmt.ops[k].name = "evict")
                  => committed[i].task # stmt.ops[k].task
        /\ evicted \cap pipelined = {}
        /\ \A t \in evicted : initial.status[t] = "Running"
        /\ \A t \in pipelined : initial.status[t] = "Pending" /\ status[t] # "Running"

\* Execute has ended with two committed evictions, one of them made after a
\* committed placement
C36_Witness ==
    /\ pc = "done"
    /\ \E i, k \in 1..Len(committed) :
          /\ i # k
          /\ committed[i].name = "evict"
          /\ committed[k].name = "evict"
    /\ \E a, b \in 1..Len(committed) :
          /\ a < b
          /\ committed[a].name = "pipeline"
          /\ committed[b].name = "evict"

\* a step of pendingState.Execute for one of the four actions that kill the job
PendingKillStep ==
    /\ lastAction'.state = "pendingState"
    /\ lastAction'.action \in KillActions

\* the pods of a job status, all phases together
AllPods(st) == st.pending + st.running + st.succeeded + st.failed + st.terminating

JobStates ==
    {"pendingState", "runningState", "restartingState", "finishedState",
     "terminatingState", "abortingState", "abortedState", "completingState"}

\* C39: NewState gives a state for the phase of every job: the pending state
\* for Pending, for the empty phase and for a phase with no case; the state
\* of its own for Running, Restarting, Terminating, Aborting, Aborted and
\* Completing; the finished state for Terminated, Completed and Failed, and
\* for no other phase. Only a job that is given the pending state is handled
\* by pendingState.Execute.
C39_NewStateIsTotal ==
    LET ph == job.phase
        s == NewState(ph)
    IN  /\ ph \in JobPhases \cup OtherPhases
        /\ s \in JobStates
        /\ (s = "pendingState") <=> (ph = "Pending" \/ ph \notin JobPhases)
        /\ (s = "finishedState") <=> (ph \in {"Terminated", "Completed", "Failed"})
        /\ (s = "runningState") <=> (ph = "Running")
        /\ (s = "restartingState") <=> (ph = "Restarting")
        /\ (s = "terminatingState") <=> (ph = "Terminating")
        /\ (s = "abortingState") <=> (ph = "Aborting")
        /\ (s = "abortedState") <=> (ph = "Aborted")
        /\ (s = "completingState") <=> (ph = "Completing")
        /\ lastAction.state \in {"none", "pendingState"}
        /\ (lastAction.state = "pendingState" /\ ~lastAction.applied) => s = "pendingState"

\* a job with the empty phase has been handled by the pending state: its sync
\* returned an error, so the phase is still empty
C39_Witness ==
    /\ job.phase = ""
    /\ lastAction.action = "SyncJob"
    /\ lastAction.state = "pendingState"
    /\ ~lastAction.applied

====
